---- MODULE Spec2Model ----
(***************************************************************************)
(* Model of the schema normalisation and endpoint sanitisation engine of   *)
(* sveltekit-valibot-openapi (src/openapi/create-specs.ts and              *)
(* src/openapi/validation.ts).                                             *)
(*                                                                         *)
(* JavaScript objects are modelled by identity: every schema node is an    *)
(* integer id, the fields of a node are looked up in the variable heap.    *)
(* The heap starts with the schemas given to the program (Node); the nodes *)
(* the normaliser creates (clones, v.string(), v.object(...)) are          *)
(* allocated after them.                                                   *)
(***************************************************************************)
EXTENDS Integers, Sequences, FiniteSets, TLC

VARIABLES
    normalizedSchemaCache,  \* WeakMap<object, AnySchema | undefined>
    schemaCache,            \* WeakMap<object, JsonSchema>
    heap,                   \* the schema nodes: those given, and those created
    nextId,                 \* next free id of heap
    log,                    \* calls made to the logger
    last,                   \* the outcome of the last top-level call
    objs,                   \* the objects of modules and of sanitized results
    nextObj,                \* next free id of objs
    ops                     \* number of top-level calls made

vars == <<normalizedSchemaCache, schemaCache, heap, nextId, log, last, objs, nextObj, ops>>

(***************************************************************************)
(* Program constants                                                       *)
(***************************************************************************)
MAX_SCHEMA_DEPTH == 32
MAX_SCHEMA_NODES == 10000
MAX_OBJECT_PROPERTIES == 128
MAX_UNION_OPTIONS == 32
MAX_ARRAY_NESTING == 16

VALIBOT_SUPPORTED_TYPES ==
    {"array", "bigint", "boolean", "brand", "date", "default", "enum",
     "fallback", "lazy", "literal", "never", "nullable", "nullish", "number",
     "object", "optional", "pipe", "promise", "readonly", "record", "string",
     "symbol", "transform", "tuple", "union", "unknown", "unknownAsync"}

(***************************************************************************)
(* Bounds of the model                                                     *)
(***************************************************************************)
ChainLen == 40      \* longest chain of nested optional wrappers
ArrChainLen == 18   \* longest chain of nested arrays
AsyncChainLen == 36 \* longest chain of nested asynchronous wrappers
DateChainLen == 36  \* longest chain of nested optional wrappers around a date
MaxWrap == 10       \* most wrapper layers put around a query object
MaxAlloc == 48      \* nodes the normaliser may create in one behaviour
MaxOps == 2         \* top-level calls in one behaviour
BigFan == 100       \* fields of each inner object of the wide trees
BigWidth == 101     \* inner objects of the widest wide tree
PageSize == 128     \* keys in one page of the normalised-schema cache
MaxObjects == 26
RunLevels == 5        \* one call of normalizeSchema may take 8^RunLevels steps
AsyncRunLevels == 3   \* one call of normalizeAsync may take 8^AsyncRunLevels steps
CycleFuel == 4        \* steps along the children when looking for a cycle
WalkLevels == 2       \* a tree that is measured has at most 8^WalkLevels levels

(***************************************************************************)
(* JavaScript values that are not objects                                  *)
(***************************************************************************)
Undef == 0          \* undefined (and null)
None == 0 - 1       \* WeakMap.get on a key that has no entry

(***************************************************************************)
(* The schema nodes given to the program.  Field `has` lists the fields    *)
(* that are present on the object ('wrapped' in x); a field that is not    *)
(* present reads as undefined.                                             *)
(***************************************************************************)
Blank ==
    [kind |-> "schema", type |-> "string", async |-> FALSE, has |-> {},
     wrapped |-> Undef, inner |-> Undef, value |-> Undef, item |-> Undef,
     entries |-> <<>>, options |-> <<>>]

Leaf(t) == [Blank EXCEPT !.type = t]
LeafA(t) == [Blank EXCEPT !.type = t, !.async = TRUE]
Wrap(t, a, c) == [Blank EXCEPT !.type = t, !.async = a, !.has = {"wrapped"}, !.wrapped = c]
PipeI(a, c) == [Blank EXCEPT !.type = "pipe", !.async = a, !.has = {"inner"}, !.inner = c]
PipeV(a, c) == [Blank EXCEPT !.type = "pipe", !.async = a, !.has = {"value"}, !.value = c]
PipeIV(a, c) ==
    [Blank EXCEPT !.type = "pipe", !.async = a, !.has = {"inner", "value"}, !.value = c]
Arr(a, c) == [Blank EXCEPT !.type = "array", !.async = a, !.has = {"item"}, !.item = c]
Obj(a, es) == [Blank EXCEPT !.type = "object", !.async = a, !.has = {"entries"}, !.entries = es]
Uni(a, os) == [Blank EXCEPT !.type = "union", !.async = a, !.has = {"options"}, !.options = os]
NotObject(k) == [Blank EXCEPT !.kind = k, !.type = k]

FixtureNames ==
    <<"false", "imp", "uns", "str", "num", "date", "never",
      "optS", "nulD", "optNv", "optBare", "pipeS", "pipeV", "pipeD", "pipeBare",
      "objSN", "objSI", "objSS", "objNv", "objBare", "objD",
      "uniSN", "uniNv", "uniSU", "uniSS", "uniEmpty",
      "arrS", "arrNv", "arrD", "arrBare",
      "nullishNv", "nullishA", "nullishAsync", "nullishS",
      "optAS", "objA", "pipeA", "pipeAV", "pipeABare", "arrA", "uniA", "nulA",
      "optOfA", "objShallowFirst", "objDeepFirst",
      "qSearch", "qAB", "qBA", "qAC", "qA", "qOptAB", "qBare",
      "uSame", "uDiff", "uSub", "uSuper", "uWrapped", "uNonObj", "uNested",
      "uEmpty", "uOne", "uDiffLate", "uImp", "uBareObj",
      "uWrapSame", "uNoOptions", "uSameThree", "optUSame", "qAsync",
      "qNullish", "qBrand", "qFallback", "qDefault",
      "arrOptNv", "arrArrNv", "arrANv", "uniDS", "pipeAUV", "pipeAA",
      "cycOpt", "cycNul", "cycArr", "cycObj", "cycUni", "cycObjArr", "cycArrObj",
      "cycOptA", "cycNullish">>

Fx(name) == CHOOSE i \in 1..Len(FixtureNames) : FixtureNames[i] = name

FalseV == Fx("false")
ImpN == Fx("imp")
UnsN == Fx("uns")
StrN == Fx("str")
NumN == Fx("num")
DateN == Fx("date")
NeverN == Fx("never")

\* families of nodes, laid out after the named fixtures
ChainBase == Len(FixtureNames)
Chain(k) == IF k = 0 THEN StrN ELSE ChainBase + k
ArrChainBase == ChainBase + ChainLen
ArrChain(k) == IF k = 0 THEN StrN ELSE ArrChainBase + k
AsyncChainBase == ArrChainBase + ArrChainLen
AsyncChain(k) == IF k = 0 THEN StrN ELSE AsyncChainBase + k
DateChainBase == AsyncChainBase + AsyncChainLen
DateChain(k) == IF k = 0 THEN DateN ELSE DateChainBase + k
QWrapBase == DateChainBase + DateChainLen
QWrap(p, k) == IF k = 0 THEN Fx("qSearch") ELSE QWrapBase + p * MaxWrap + k
DynBase == QWrapBase + 3 * MaxWrap
DynIds == (DynBase + 1)..(DynBase + MaxAlloc)
SmallTop == DynBase + MaxAlloc
\* the wide trees: BigRoot(w) has the inner objects BigMid(1..w), each of
\* which has BigFan string fields of its own
BigBase == DynBase + MaxAlloc
BigMid(i) == BigBase + i
BigLeafBase == BigBase + BigWidth
BigLeaf(i, j) == BigLeafBase + (i - 1) * BigFan + j
BigRootBase == BigLeafBase + BigWidth * BigFan
BigRoot(w) == BigRootBase + w
BigTop == BigRootBase + BigWidth

WrapKinds == <<"optional", "nullable", "pipe">>

KeyName(j) == ToString(j)

Named(id) ==
    LET nm == FixtureNames[id] IN
    CASE nm = "false" -> NotObject("false")
      [] nm = "imp" -> [Blank EXCEPT !.kind = "other"]
      [] nm = "uns" -> Leaf("map")
      [] nm = "str" -> Leaf("string")
      [] nm = "num" -> Leaf("number")
      [] nm = "date" -> Leaf("date")
      [] nm = "never" -> Leaf("never")
      [] nm = "optS" -> Wrap("optional", FALSE, StrN)
      [] nm = "nulD" -> Wrap("nullable", FALSE, DateN)
      [] nm = "optNv" -> Wrap("optional", FALSE, NeverN)
      [] nm = "optBare" -> Leaf("optional")
      [] nm = "pipeS" -> PipeI(FALSE, StrN)
      [] nm = "pipeV" -> PipeV(FALSE, NumN)
      [] nm = "pipeD" -> PipeI(FALSE, DateN)
      [] nm = "pipeBare" -> Leaf("pipe")
      [] nm = "objSN" -> Obj(FALSE, <<<<"a", StrN>>, <<"b", NeverN>>, <<"c", NumN>>>>)
      [] nm = "objSI" -> Obj(FALSE, <<<<"a", StrN>>, <<"b", ImpN>>>>)
      [] nm = "objSS" -> Obj(FALSE, <<<<"a", StrN>>, <<"b", NumN>>>>)
      [] nm = "objNv" -> Obj(FALSE, <<<<"a", NeverN>>>>)
      [] nm = "objBare" -> Leaf("object")
      [] nm = "objD" -> Obj(FALSE, <<<<"a", StrN>>, <<"d", DateN>>>>)
      [] nm = "uniSN" -> Uni(FALSE, <<StrN, NeverN>>)
      [] nm = "uniNv" -> Uni(FALSE, <<NeverN>>)
      [] nm = "uniSU" -> Uni(FALSE, <<StrN, UnsN>>)
      [] nm = "uniSS" -> Uni(FALSE, <<StrN, NumN>>)
      [] nm = "uniEmpty" -> Uni(FALSE, <<>>)
      [] nm = "arrS" -> Arr(FALSE, StrN)
      [] nm = "arrNv" -> Arr(FALSE, NeverN)
      [] nm = "arrD" -> Arr(FALSE, DateN)
      [] nm = "arrBare" -> Leaf("array")
      [] nm = "nullishNv" -> Wrap("nullish", FALSE, NeverN)
      [] nm = "nullishA" -> Wrap("nullish", FALSE, Fx("optAS"))
      [] nm = "nullishAsync" -> Wrap("nullish", TRUE, StrN)
      [] nm = "nullishS" -> Wrap("nullish", FALSE, StrN)
      [] nm = "optAS" -> Wrap("optional", TRUE, StrN)
      [] nm = "objA" -> Obj(TRUE, <<<<"a", StrN>>, <<"b", NeverN>>>>)
      [] nm = "pipeA" -> PipeI(TRUE, StrN)
      [] nm = "pipeAV" -> PipeV(TRUE, NumN)
      [] nm = "pipeABare" -> LeafA("pipe")
      [] nm = "arrA" -> Arr(TRUE, DateN)
      [] nm = "uniA" -> Uni(TRUE, <<StrN, Fx("optAS")>>)
      [] nm = "nulA" -> Wrap("nullable", TRUE, Fx("optAS"))
      [] nm = "optOfA" -> Wrap("optional", FALSE, Fx("objA"))
      [] nm = "objShallowFirst" -> Obj(FALSE, <<<<"a", Chain(20)>>, <<"b", Chain(35)>>>>)
      [] nm = "objDeepFirst" -> Obj(FALSE, <<<<"b", Chain(35)>>, <<"a", Chain(20)>>>>)
      [] nm = "qSearch" -> Obj(FALSE, <<<<"search", Fx("optS")>>>>)
      [] nm = "qAB" -> Obj(FALSE, <<<<"a", StrN>>, <<"b", NumN>>>>)
      [] nm = "qBA" -> Obj(FALSE, <<<<"b", NumN>>, <<"a", StrN>>>>)
      [] nm = "qAC" -> Obj(FALSE, <<<<"a", StrN>>, <<"c", NumN>>>>)
      [] nm = "qA" -> Obj(FALSE, <<<<"a", StrN>>>>)
      [] nm = "qOptAB" -> Wrap("optional", FALSE, Fx("qAB"))
      [] nm = "qBare" -> Leaf("object")
      [] nm = "uSame" -> Uni(FALSE, <<Fx("qAB"), Fx("qBA")>>)
      [] nm = "uDiff" -> Uni(FALSE, <<Fx("qAB"), Fx("qAC")>>)
      [] nm = "uSub" -> Uni(FALSE, <<Fx("qAB"), Fx("qA")>>)
      [] nm = "uSuper" -> Uni(FALSE, <<Fx("qA"), Fx("qAB")>>)
      [] nm = "uWrapped" -> Uni(FALSE, <<Fx("qOptAB"), Fx("qBA"), QWrap(1, 3)>>)
      [] nm = "uNonObj" -> Uni(FALSE, <<Fx("qAB"), StrN>>)
      [] nm = "uNested" -> Uni(FALSE, <<Fx("uSame"), Fx("qAB")>>)
      [] nm = "uEmpty" -> Uni(FALSE, <<>>)
      [] nm = "uOne" -> Uni(FALSE, <<Fx("qSearch")>>)
      [] nm = "uDiffLate" -> Uni(FALSE, <<Fx("qAB"), Fx("qBA"), Fx("qAC")>>)
      [] nm = "uImp" -> Uni(FALSE, <<Fx("qAB"), ImpN>>)
      [] nm = "uBareObj" -> Uni(FALSE, <<Fx("qBare"), Fx("qAB")>>)
      [] nm = "uWrapSame" -> Uni(FALSE, <<Fx("qOptAB"), Fx("qBA")>>)
      [] nm = "uNoOptions" -> Leaf("union")
      [] nm = "uSameThree" -> Uni(FALSE, <<Fx("qBA"), Fx("qAB"), Fx("qOptAB")>>)
      [] nm = "optUSame" -> Wrap("optional", FALSE, Fx("uSame"))
      [] nm = "qAsync" -> Obj(TRUE, <<<<"a", StrN>>>>)
      [] nm = "qNullish" -> Wrap("nullish", FALSE, Fx("qAB"))
      [] nm = "qBrand" -> Wrap("brand", FALSE, Fx("qAB"))
      [] nm = "qFallback" -> Wrap("fallback", FALSE, Fx("qAB"))
      [] nm = "qDefault" -> Wrap("default", FALSE, Fx("qAB"))
      [] nm = "arrOptNv" -> Arr(FALSE, Fx("optNv"))
      [] nm = "arrArrNv" -> Arr(FALSE, Fx("arrNv"))
      [] nm = "arrANv" -> Arr(TRUE, NeverN)
      [] nm = "uniDS" -> Uni(FALSE, <<DateN, StrN>>)
      [] nm = "pipeAUV" -> PipeIV(TRUE, NumN)
      [] nm = "pipeAA" -> PipeI(TRUE, Fx("optAS"))
      [] nm = "cycOpt" -> Wrap("optional", FALSE, Fx("cycOpt"))
      [] nm = "cycNul" -> Wrap("nullable", FALSE, Fx("cycNul"))
      [] nm = "cycArr" -> Arr(FALSE, Fx("cycArr"))
      [] nm = "cycObj" -> Obj(FALSE, <<<<"a", StrN>>, <<"b", Fx("cycObj")>>, <<"c", Fx("cycObj")>>>>)
      [] nm = "cycUni" -> Uni(FALSE, <<StrN, Fx("cycUni"), Fx("cycUni")>>)
      [] nm = "cycObjArr" -> Obj(FALSE, <<<<"a", Fx("cycArrObj")>>>>)
      [] nm = "cycArrObj" -> Arr(FALSE, Fx("cycObjArr"))
      [] nm = "cycOptA" -> Wrap("optional", TRUE, Fx("cycOptA"))
      [] nm = "cycNullish" -> Wrap("nullish", FALSE, Fx("cycNullish"))

Node(id) ==
    IF id > BigRootBase THEN
        Obj(FALSE, [i \in 1..(id - BigRootBase) |-> <<KeyName(i), BigMid(i)>>])
    ELSE IF id > BigLeafBase THEN Leaf("string")
    ELSE IF id > BigBase THEN
        Obj(FALSE, [j \in 1..BigFan |-> <<KeyName(j), BigLeaf(id - BigBase, j)>>])
    ELSE IF id > DynBase THEN NotObject("free")
    ELSE IF id > QWrapBase THEN
        LET off == id - QWrapBase - 1
            p == off \div MaxWrap
            k == (off % MaxWrap) + 1
            t == WrapKinds[((k + p) % 3) + 1]
        IN  IF t = "pipe" THEN PipeI(FALSE, QWrap(p, k - 1))
            ELSE Wrap(t, FALSE, QWrap(p, k - 1))
    ELSE IF id > DateChainBase THEN Wrap("optional", FALSE, DateChain(id - DateChainBase - 1))
    ELSE IF id > AsyncChainBase THEN Wrap("optional", TRUE, AsyncChain(id - AsyncChainBase - 1))
    ELSE IF id > ArrChainBase THEN Arr(FALSE, ArrChain(id - ArrChainBase - 1))
    ELSE IF id > ChainBase THEN Wrap("optional", FALSE, Chain(id - ChainBase - 1))
    ELSE IF id = Undef THEN NotObject("undefined")
    ELSE Named(id)

(***************************************************************************)
(* The heap: the given nodes, and the nodes created so far.  st is the     *)
(* mutable state a call works on: [cache, heap, nextId, full].             *)
(***************************************************************************)
N(st, id) == st.heap[id]

Field(n, f) ==
    IF f \notin n.has THEN Undef
    ELSE CASE f = "wrapped" -> n.wrapped
           [] f = "inner" -> n.inner
           [] f = "value" -> n.value
           [] f = "item" -> n.item

\* `new` of a schema object (v.string(), v.object(...), a { ...base } clone)
Alloc(st, rec) ==
    IF st.nextId \in DynIds
    THEN [id |-> st.nextId,
          st |-> [st EXCEPT !.heap[st.nextId] = rec, !.nextId = @ + 1]]
    ELSE [id |-> Undef, st |-> [st EXCEPT !.full = TRUE]]

Truthy(id) == id # Undef /\ id # FalseV

isValibotSchema(st, id) ==
    LET n == N(st, id) IN
    /\ Truthy(id)
    /\ n.kind = "schema"
    /\ n.type \in VALIBOT_SUPPORTED_TYPES

isAsyncSchema(st, id) == isValibotSchema(st, id) /\ N(st, id).async = TRUE

hasWrapped(st, id) == "wrapped" \in N(st, id).has

(***************************************************************************)
(* normalizeAsync                                                          *)
(***************************************************************************)
\* the child a pipeAsync is reduced to:
\*   ('inner' in s && s.inner) ?? ('value' in s && s.value) ?? s
asyncPipeInner(n, self) ==
    LET a == IF "inner" \in n.has THEN n.inner ELSE FalseV
        b == IF "value" \in n.has THEN n.value ELSE FalseV
    IN  IF a # Undef THEN a ELSE IF b # Undef THEN b ELSE self

asyncDepthExceeded(depth) == depth > MAX_SCHEMA_DEPTH

\* the branch of normalizeAsync that is taken for the value s
asyncBranch(st, s, depth) ==
    IF ~isAsyncSchema(st, s) THEN "sync"
    ELSE IF asyncDepthExceeded(depth) THEN "tooDeep"
    ELSE LET n == N(st, s) IN
         IF n.type = "object" THEN "object"
         ELSE IF n.type = "array" /\ "item" \in n.has THEN "array"
         ELSE IF n.type = "optional" /\ "wrapped" \in n.has THEN "optional"
         ELSE IF n.type = "nullable" /\ "wrapped" \in n.has THEN "nullable"
         ELSE IF n.type = "union" /\ "options" \in n.has THEN "union"
         ELSE IF n.type = "pipe" THEN "pipe"
         ELSE "other"

\* A call of normalizeAsync in progress.  The calls that wait for a callee
\* are kept on stack, the innermost last; ctl = "call" when normalizeAsync(s,
\* depth) is about to start, ctl = "ret" when a call has just returned val.
\* A waiting call holds the children it converts from left to right (the
\* fields of an object, the options of a union, the one child of a wrapper
\* or an array) and the converted ones so far.
AsyncStart(s, depth, st) ==
    [ctl |-> "call", s |-> s, depth |-> depth, val |-> Undef, stack |-> <<>>,
     st |-> st, done |-> FALSE]

\* the outermost call has returned
AsyncDone(m) == m.ctl = "ret" /\ Len(m.stack) = 0

AsyncFrame(type, depth, keys, children) ==
    [type |-> type, depth |-> depth, keys |-> keys, children |-> children, acc |-> <<>>]

\* v.object(converted), v.array(item), v.optional(wrapped), v.nullable(wrapped),
\* v.union(normalized)
asyncBuilt(f) ==
    CASE f.type = "object" -> Obj(FALSE, [i \in 1..Len(f.acc) |-> <<f.keys[i], f.acc[i]>>])
      [] f.type = "array" -> Arr(FALSE, f.acc[1])
      [] f.type = "union" -> Uni(FALSE, f.acc)
      [] OTHER -> Wrap(f.type, FALSE, f.acc[1])

\* the waiting call f goes on: it converts its next child, or builds its
\* result when no child is left
asyncResume(m, f) ==
    IF Len(f.acc) = Len(f.children)
    THEN LET al == Alloc(m.st, asyncBuilt(f))
         IN  [m EXCEPT !.ctl = "ret", !.val = al.id, !.st = al.st]
    ELSE [m EXCEPT !.ctl = "call", !.s = f.children[Len(f.acc) + 1],
                   !.depth = f.depth + 1, !.stack = Append(@, f)]

\* the body of normalizeAsync(m.s, m.depth) up to its first recursive call
asyncCall(m) ==
    LET br == asyncBranch(m.st, m.s, m.depth)
        n == N(m.st, m.s)
    IN  CASE br = "sync" -> [m EXCEPT !.ctl = "ret", !.val = m.s]
          [] br = "tooDeep" ->
                LET al == Alloc(m.st, Obj(FALSE, <<>>))
                IN  [m EXCEPT !.ctl = "ret", !.val = al.id, !.st = al.st]
          [] br = "object" ->
                LET es == IF "entries" \in n.has THEN n.entries ELSE <<>>
                IN  asyncResume(m, AsyncFrame("object", m.depth,
                                              [i \in 1..Len(es) |-> es[i][1]],
                                              [i \in 1..Len(es) |-> es[i][2]]))
          [] br = "array" -> asyncResume(m, AsyncFrame("array", m.depth, <<>>, <<n.item>>))
          [] br = "optional" ->
                asyncResume(m, AsyncFrame("optional", m.depth, <<>>, <<n.wrapped>>))
          [] br = "nullable" ->
                asyncResume(m, AsyncFrame("nullable", m.depth, <<>>, <<n.wrapped>>))
          [] br = "union" -> asyncResume(m, AsyncFrame("union", m.depth, <<>>, n.options))
          [] br = "pipe" -> [m EXCEPT !.s = asyncPipeInner(n, m.s), !.depth = @ + 1]
          [] br = "other" -> [m EXCEPT !.ctl = "ret", !.val = m.s]

\* the innermost waiting call receives the value its callee returned
asyncReturn(m) ==
    LET top == m.stack[Len(m.stack)]
    IN  asyncResume([m EXCEPT !.stack = SubSeq(@, 1, Len(@) - 1)],
                    [top EXCEPT !.acc = Append(@, m.val)])

\* the call in progress after a step, marked done when it has returned
asyncMark(next) == [next EXCEPT !.done = AsyncDone(next)]

asyncStep(m) == asyncMark(IF m.ctl = "call" THEN asyncCall(m) ELSE asyncReturn(m))

RECURSIVE asyncRun(_, _)
\* at most 8^level steps of the call m, stopping when it has returned; the
\* steps are taken in eight runs of 8^(level - 1) steps to keep the
\* evaluation shallow
asyncRun(m, level) ==
    CASE m.done -> m
      [] level = 0 -> asyncStep(m)
      [] OTHER ->
            LET m1 == asyncRun(m, level - 1)
                m2 == asyncRun(m1, level - 1)
                m3 == asyncRun(m2, level - 1)
                m4 == asyncRun(m3, level - 1)
                m5 == asyncRun(m4, level - 1)
                m6 == asyncRun(m5, level - 1)
                m7 == asyncRun(m6, level - 1)
            IN  CASE m1.done -> m1
                  [] m2.done -> m2
                  [] m3.done -> m3
                  [] m4.done -> m4
                  [] m5.done -> m5
                  [] m6.done -> m6
                  [] m7.done -> m7
                  [] OTHER -> asyncRun(m7, level - 1)

\* normalizeAsync(s, depth): the value returned and the heap it leaves
asyncResult(m) ==
    [id |-> m.val, st |-> IF m.done THEN m.st ELSE [m.st EXCEPT !.full = TRUE]]

normalizeAsync(s, depth, st) ==
    asyncResult(asyncRun(AsyncStart(s, depth, st), AsyncRunLevels))

(***************************************************************************)
(* normalizeSchema.  A call returns [k, id, msg, st]: k = "ret" with the   *)
(* returned node id (Undef when the call returns undefined), or            *)
(* k = "throw" with the error message; st is the state the call leaves.    *)
(***************************************************************************)
Ret(st, id) == [k |-> "ret", id |-> id, msg |-> "", st |-> st]
Thrown(st, msg) == [k |-> "throw", id |-> Undef, msg |-> msg, st |-> st]

\* The WeakMap is kept in pages of PageSize keys: the entry of key k is
\* cache[k \div PageSize][k % PageSize], None when k has no entry.
EmptyCache(top) == [p \in 0..(top \div PageSize) |-> [o \in 0..(PageSize - 1) |-> None]]
\* normalizedSchemaCache.get(key)
CacheGet(cache, key) == cache[key \div PageSize][key % PageSize]
\* normalizedSchemaCache.set(key, value); rewritten collects the keys that
\* are set while they already have an entry
CacheSet(st, key, val) ==
    [st EXCEPT !.cache[key \div PageSize][key % PageSize] = val,
               !.rewritten = IF CacheGet(st.cache, key) = None THEN @ ELSE @ \cup {key}]
RetSet(st, key, val) == Ret(CacheSet(st, key, val), val)

\* const cached = normalizedSchemaCache.get(key); cached !== undefined
CacheHit(st, key) == CacheGet(st.cache, key) # None /\ CacheGet(st.cache, key) # Undef

\* a normaliser without the depth check
depthNeverExceeded(budget) == FALSE
nodeLimitExceeded(budget) == budget.nodeCount > MAX_SCHEMA_NODES
depthExceeded(budget) == budget.depth > MAX_SCHEMA_DEPTH
arrayNestingExceeded(budget) == budget.arrayDepth > MAX_ARRAY_NESTING

\* the budget a callee sees after `budget.nodeCount++` of the caller
counted(budget) == [budget EXCEPT !.nodeCount = @ + 1]
\* { ...budget, depth: budget.depth + 1 }: a copy, the callee's increments
\* of nodeCount are made on the copy
childBudget(budget) == [budget EXCEPT !.depth = @ + 1]
itemBudget(budget) == [budget EXCEPT !.depth = @ + 1, !.arrayDepth = @ + 1]

\* what normalizeSchema answers for a value that is not a schema node
notSchemaResult(st) == Ret(st, Undef)

\* the result of a wrapper (optional, nullable) or an array whose child
\* normalised to norm
rewrapResultKeepsEmptied(st, key, field, child, norm) ==
    IF norm = Undef \/ norm = child THEN RetSet(st, key, key)
    ELSE LET base == N(st, key)
             al == Alloc(st, IF field = "item" THEN [base EXCEPT !.item = norm]
                             ELSE [base EXCEPT !.wrapped = norm])
         IN  RetSet(al.st, key, al.id)
rewrapResult(st, key, field, child, norm) ==
    IF norm = Undef THEN RetSet(st, key, Undef)
    ELSE IF norm = child THEN RetSet(st, key, key)
    ELSE LET base == N(st, key)
             al == Alloc(st, IF field = "item" THEN [base EXCEPT !.item = norm]
                             ELSE [base EXCEPT !.wrapped = norm])
         IN  RetSet(al.st, key, al.id)

\* if (!norm) { set(key, undefined) } else { set(key, norm) }: the pipe layer
\* is replaced by what its child normalised to
pipeResult(st, key, norm) == RetSet(st, key, norm)

dateResultKeepsDate(st, key) == RetSet(st, key, key)
dateResult(st, key) ==
    LET al == Alloc(st, Leaf("string")) IN RetSet(al.st, key, al.id)

leafResult(st, key) == RetSet(st, key, key)

objectResultAlwaysRebuilt(st, key, changed, nextEntries) ==
    LET al == Alloc(st, [N(st, key) EXCEPT !.entries = nextEntries])
    IN  RetSet(al.st, key, al.id)
objectResultAbsentWhenEmptied(st, key, changed, nextEntries) ==
    IF ~changed THEN RetSet(st, key, key)
    ELSE IF Len(nextEntries) = 0 THEN RetSet(st, key, Undef)
    ELSE LET al == Alloc(st, [N(st, key) EXCEPT !.entries = nextEntries])
         IN  RetSet(al.st, key, al.id)
objectResult(st, key, changed, nextEntries) ==
    IF ~changed THEN RetSet(st, key, key)
    ELSE LET al == Alloc(st, [N(st, key) EXCEPT !.entries = nextEntries])
         IN  RetSet(al.st, key, al.id)

unionResult(st, key, changed, nextOptions) ==
    IF Len(nextOptions) = 0 THEN RetSet(st, key, Undef)
    ELSE IF ~changed THEN RetSet(st, key, key)
    ELSE LET al == Alloc(st, [N(st, key) EXCEPT !.options = nextOptions])
         IN  RetSet(al.st, key, al.id)

\* schema = normalizeAsync(schema, budget.depth) when the value is asynchronous
syncOf(schema, budget, st) ==
    IF isAsyncSchema(st, schema)
    THEN normalizeAsync(schema, budget.depth, st)
    ELSE [id |-> schema, st |-> st]

\* base.inner ?? base.value
pipeInner(base) ==
    IF Field(base, "inner") # Undef THEN Field(base, "inner") ELSE Field(base, "value")

\* the branch of normalizeSchema that is taken for the node key, in the
\* order of the tests of the code
normBranch(st, key, budget) ==
    IF ~isValibotSchema(st, key) THEN "notSchema"
    ELSE IF CacheHit(st, key) THEN "cached"
    ELSE LET base == N(st, key)
             type == base.type
         IN
         IF type \notin VALIBOT_SUPPORTED_TYPES THEN "unsupported"
         ELSE IF type = "date" THEN "date"
         ELSE IF type = "never" THEN "never"
         ELSE IF type = "optional" \/ type = "nullable" THEN
             IF ~hasWrapped(st, key) THEN "absent" ELSE "wrapper"
         ELSE IF type = "pipe" THEN
             IF ~Truthy(pipeInner(base)) THEN "absent" ELSE "pipe"
         ELSE IF type = "object" THEN
             IF "entries" \notin base.has THEN "objectNoEntries"
             ELSE IF Len(base.entries) > MAX_OBJECT_PROPERTIES THEN "objectTooMany"
             ELSE "object"
         ELSE IF type = "array" THEN
             IF arrayNestingExceeded(budget) THEN "arrayNesting"
             ELSE IF ~Truthy(Field(base, "item")) THEN "arrayNoItem"
             ELSE "array"
         ELSE IF type = "union" THEN
             IF "options" \notin base.has THEN "unionNoOptions"
             ELSE IF Len(base.options) > MAX_UNION_OPTIONS THEN "unionTooMany"
             ELSE "union"
         ELSE "leaf"

\* A call of normalizeSchema in progress, kept as normalizeAsync's is:
\* ctl = "call" when normalizeSchema(schema, budget) is about to start,
\* "ret" when a call has just returned val, "throw" when one has thrown msg
\* (nothing in normalizeSchema catches, so the top call throws it too).
NormStart(schema, budget, st) ==
    [ctl |-> "call", schema |-> schema, budget |-> budget, val |-> Undef,
     msg |-> "", stack |-> <<>>, st |-> st, done |-> FALSE]

\* the outermost call has thrown or returned
NormDone(m) == m.ctl = "throw" \/ (m.ctl = "ret" /\ Len(m.stack) = 0)

\* a waiting call: the node key, the budget it hands to its children, the
\* children it visits from left to right, how many it has visited, the
\* children it keeps and whether any changed
NormFrame(kind, key, budget, keys, children) ==
    [kind |-> kind, key |-> key, budget |-> budget, keys |-> keys,
     children |-> children, at |-> 0, acc |-> <<>>, changed |-> FALSE]

\* the call in progress ends as r does
normEnd(m, r) == [m EXCEPT !.ctl = r.k, !.val = r.id, !.msg = r.msg, !.st = r.st]

\* what a waiting call answers once its children are visited; norm is what
\* its last child normalised to
normFinish(st, f, norm) ==
    CASE f.kind = "wrapper" -> rewrapResult(st, f.key, "wrapped", f.children[1], norm)
      [] f.kind = "array" -> rewrapResult(st, f.key, "item", f.children[1], norm)
      [] f.kind = "pipe" -> pipeResult(st, f.key, norm)
      [] f.kind = "object" -> objectResult(st, f.key, f.changed, f.acc)
      [] f.kind = "union" -> unionResult(st, f.key, f.changed, f.acc)

\* the waiting call f goes on with its next child, or answers
normResume(m, f, norm) ==
    IF f.at = Len(f.children) THEN normEnd(m, normFinish(m.st, f, norm))
    ELSE [m EXCEPT !.ctl = "call", !.schema = f.children[f.at + 1],
                   !.budget = f.budget, !.stack = Append(@, f)]

\* the call m takes branch br; budget is the budget after nodeCount++, key
\* the synchronous form of m.schema and st the state that left
normTake(m, budget, key, st, base, br, at) ==
        CASE br = "nodeLimit" -> normEnd(m, Thrown(m.st, "Schema node limit exceeded"))
          [] br = "depthLimit" -> normEnd(m, Thrown(m.st, "Schema depth limit exceeded"))
          [] br = "notSchema" -> normEnd(m, notSchemaResult(st))
          [] br = "cached" -> normEnd(m, Ret(st, CacheGet(st.cache, key)))
          [] br = "unsupported" -> normEnd(m, Thrown(st, "Unsupported Valibot schema type"))
          [] br = "date" -> normEnd(m, dateResult(st, key))
          [] br = "never" -> normEnd(m, RetSet(st, key, Undef))
          [] br = "absent" -> normEnd(m, RetSet(st, key, Undef))
          [] br = "wrapper" ->
                normResume(at, NormFrame("wrapper", key, childBudget(budget), <<>>,
                                         <<base.wrapped>>), Undef)
          [] br = "pipe" ->
                normResume(at, NormFrame("pipe", key, childBudget(budget), <<>>,
                                         <<pipeInner(base)>>), Undef)
          [] br = "objectNoEntries" -> normEnd(m, Thrown(st, "object schema missing entries"))
          [] br = "objectTooMany" ->
                normEnd(m, Thrown(st, "object schema has too many properties"))
          [] br = "object" ->
                normResume(at, NormFrame("object", key, childBudget(budget),
                                         [i \in 1..Len(base.entries) |-> base.entries[i][1]],
                                         [i \in 1..Len(base.entries) |-> base.entries[i][2]]),
                           Undef)
          [] br = "arrayNesting" -> normEnd(m, Thrown(st, "array nesting depth exceeded"))
          [] br = "arrayNoItem" -> normEnd(m, Thrown(st, "array schema missing item"))
          [] br = "array" ->
                normResume(at, NormFrame("array", key, itemBudget(budget), <<>>,
                                         <<base.item>>), Undef)
          [] br = "unionNoOptions" -> normEnd(m, Thrown(st, "union schema missing options"))
          [] br = "unionTooMany" -> normEnd(m, Thrown(st, "union schema has too many options"))
          [] br = "union" ->
                normResume(at, NormFrame("union", key, childBudget(budget), <<>>,
                                         base.options), Undef)
          [] br = "leaf" -> normEnd(m, leafResult(st, key))

\* a is the synchronous form of m.schema, as syncOf answers it
normSynced(m, budget, a) ==
    normTake(m, budget, a.id, a.st, N(a.st, a.id),
             IF nodeLimitExceeded(m.budget) THEN "nodeLimit"
             ELSE IF depthExceeded(m.budget) THEN "depthLimit"
             ELSE normBranch(a.st, a.id, budget),
             [m EXCEPT !.st = a.st])

\* the body of normalizeSchema(m.schema, m.budget) up to its first
\* recursive call
normCall(m) == normSynced(m, counted(m.budget), syncOf(m.schema, counted(m.budget), m.st))

\* one iteration of the loops over the children of an object or a union,
\* child being what the value normalised to:
\*   if (!child) { changed = true; continue; }
\*   if (child !== value) changed = true;  next.push(child)
childStep(f, child) ==
    LET value == f.children[f.at + 1]
        kept == IF f.kind = "object" THEN <<f.keys[f.at + 1], child>> ELSE child
    IN  IF f.kind \notin {"object", "union"} THEN [f EXCEPT !.at = @ + 1]
        ELSE IF child = Undef THEN [f EXCEPT !.at = @ + 1, !.changed = TRUE]
        ELSE [f EXCEPT !.at = @ + 1, !.acc = Append(@, kept),
                       !.changed = @ \/ child # value]

\* the innermost waiting call receives the value its callee returned
normReturn(m) ==
    LET top == m.stack[Len(m.stack)]
    IN  normResume([m EXCEPT !.stack = SubSeq(@, 1, Len(@) - 1)],
                   childStep(top, m.val), m.val)

\* the call in progress after a step, marked done when it has ended
normMark(next) == [next EXCEPT !.done = NormDone(next)]

normStep(m) == normMark(IF m.ctl = "call" THEN normCall(m) ELSE normReturn(m))

RECURSIVE normRun(_, _)
\* at most 8^level steps of the call m, stopping when it has returned or
\* thrown
normRun(m, level) ==
    CASE m.done -> m
      [] level = 0 -> normStep(m)
      [] OTHER ->
            LET m1 == normRun(m, level - 1)
                m2 == normRun(m1, level - 1)
                m3 == normRun(m2, level - 1)
                m4 == normRun(m3, level - 1)
                m5 == normRun(m4, level - 1)
                m6 == normRun(m5, level - 1)
                m7 == normRun(m6, level - 1)
            IN  CASE m1.done -> m1
                  [] m2.done -> m2
                  [] m3.done -> m3
                  [] m4.done -> m4
                  [] m5.done -> m5
                  [] m6.done -> m6
                  [] m7.done -> m7
                  [] OTHER -> normRun(m7, level - 1)

\* normalizeSchema(schema, budget): how the call ends and the state it leaves
normResult(m) ==
    [k |-> IF m.ctl = "throw" THEN "throw" ELSE "ret",
     id |-> IF m.ctl = "throw" THEN Undef ELSE m.val,
     msg |-> m.msg,
     st |-> IF m.done THEN m.st ELSE [m.st EXCEPT !.full = TRUE]]

normalizeSchema(schema, budget0, st0) ==
    normResult(normRun(NormStart(schema, budget0, st0), RunLevels))

freshBudget == [arrayDepth |-> 0, depth |-> 0, nodeCount |-> 0]

(***************************************************************************)
(* toCleanJsonSchema.  The exporter (toJsonSchema of @valibot/to-json-     *)
(* schema) is outside the repository: its outcome e is chosen by the       *)
(* environment among throwing an Error, throwing a value that is not an    *)
(* Error, a boolean schema and an object schema.  A result tells in        *)
(* `called` whether the exporter was called and in `err` which object is   *)
(* thrown: the exporter's own Error, a new Error made here, or the error   *)
(* of the normaliser.                                                      *)
(***************************************************************************)
NoJson == [t |-> "none", b |-> FALSE, of |-> Undef, mode |-> "", dollar |-> FALSE]
JsonBool(b) == [NoJson EXCEPT !.t = "bool", !.b = b]
ExportOutcomes == {"throw", "throwValue", "true", "false", "object"}
\* err.message of the Error the exporter throws
ExporterMessage == "exporter message"
\* the message used when what was thrown is not an Error
UnknownMessage == "Unknown error during Valibot to JSON Schema conversion"
TypeModes == {"input", "output"}

\* what toJsonSchema(prepared, { typeMode }) returns when it does not throw
toJsonSchema(prepared, typeMode, e) ==
    IF e = "object"
    THEN [t |-> "obj", b |-> FALSE, of |-> prepared, mode |-> typeMode, dollar |-> TRUE]
    ELSE JsonBool(e = "true")

\* const { $schema, ...rest } = raw
stripDollarSchema(raw) == [raw EXCEPT !.dollar = FALSE]

JsonTruthy(j) == j.t = "obj" \/ (j.t = "bool" /\ j.b)

\* a call logger[level](msg, meta): detail is meta.message
LogEntry(level, msg, detail) ==
    [level |-> level, msg |-> msg, detail |-> detail, file |-> <<>>, method |-> <<>>]

\* the catch block: message = err instanceof Error ? err.message : 'Unknown...';
\* getLogger().error(..., { message, typeMode });
\* throw err instanceof Error ? err : new Error(message)
exportFailureAlwaysNew(e) == [msg |-> UnknownMessage, err |-> "new"]
exportFailure(e) ==
    IF e = "throw" THEN [msg |-> ExporterMessage, err |-> "exporter"]
    ELSE [msg |-> UnknownMessage, err |-> "new"]

notPreparedNever(id) == FALSE
\* if (!prepared)
notPrepared(id) == id = Undef

\* the part of toCleanJsonSchema after `const prepared = normalizeSchema(...)`
\* has ended as r
exportPrepared(r, typeMode, e, sc, lg) ==
    LET out(k, json, msg, sc2, lg2, called, err) ==
            [k |-> k, json |-> json, msg |-> msg, st |-> r.st, sc |-> sc2,
             log |-> lg2, prepared |-> r.id, called |-> called, err |-> err]
    IN
    IF r.k = "throw" THEN out("throw", NoJson, r.msg, sc, lg, FALSE, "normalize")
    ELSE IF notPrepared(r.id)
    THEN out("throw", NoJson, "Non-convertible schema encountered", sc, lg, FALSE, "new")
    ELSE IF JsonTruthy(sc[r.id]) THEN out("ret", sc[r.id], "", sc, lg, FALSE, "")
    ELSE IF e \in {"throw", "throwValue"}
    THEN out("throw", NoJson, exportFailure(e).msg, sc,
             Append(lg, LogEntry("error", "Failed to convert Valibot schema to JSON Schema",
                                 exportFailure(e).msg)),
             TRUE, exportFailure(e).err)
    ELSE LET raw == toJsonSchema(r.id, typeMode, e)
         IN  IF raw.t = "bool"
             THEN out("ret", raw, "", [sc EXCEPT ![r.id] = raw], lg, TRUE, "")
             ELSE LET rest == stripDollarSchema(raw)
                  IN  out("ret", rest, "", [sc EXCEPT ![r.id] = rest], lg, TRUE, "")

\* returns [k, json, msg, st, sc, log, prepared, called, err]
toCleanJsonSchema(schema, typeMode, e, st0, sc, lg) ==
    exportPrepared(normalizeSchema(schema, freshBudget, st0), typeMode, e, sc, lg)

(***************************************************************************)
(* validation.ts: unwrapObjectLikeQuerySchema                              *)
(***************************************************************************)
QRet(id) == [k |-> "ret", id |-> id, msg |-> ""]
QThrown(msg) == [k |-> "throw", id |-> Undef, msg |-> msg]

wrapperDepthExceededAtEight(depth) == depth >= 8
wrapperDepthExceeded(depth) == depth > 8

\* node.inner ?? node.value
queryPipeInner(n) ==
    IF "inner" \in n.has /\ n.inner # Undef THEN n.inner
    ELSE IF "value" \in n.has THEN n.value ELSE Undef

\* Object.keys(entries)
objectKeys(n) == [i \in 1..Len(n.entries) |-> n.entries[i][1]]

includes(keys, k) == \E i \in 1..Len(keys) : keys[i] = k

keysDifferByNameOnly(baseKeys, keys) ==
    \E i \in 1..Len(keys) : ~includes(baseKeys, keys[i])
\* baseKeys.length !== keys.length || keys.some((k) => !baseKeys.includes(k))
keysDiffer(baseKeys, keys) ==
    \/ Len(baseKeys) # Len(keys)
    \/ \E i \in 1..Len(keys) : ~includes(baseKeys, keys[i])

RECURSIVE unwrapObjectLikeQuerySchema(_, _, _)
RECURSIVE unwrapUnionOptions(_, _, _, _, _, _)
unwrapObjectLikeQuerySchema(st, schema, depth) ==
    LET node == N(st, schema) IN
    IF wrapperDepthExceeded(depth) THEN QThrown("maximum wrapper depth exceeded")
    ELSE IF ~isValibotSchema(st, schema) THEN QThrown("must be a Valibot schema")
    ELSE IF node.type = "object" THEN
        IF "entries" \notin node.has THEN QThrown("object schema missing entries")
        ELSE QRet(schema)
    ELSE IF node.type \in {"optional", "nullable"} THEN
        IF "wrapped" \notin node.has THEN QThrown("schema missing wrapped")
        ELSE unwrapObjectLikeQuerySchema(st, node.wrapped, depth + 1)
    ELSE IF node.type = "pipe" THEN
        IF ~Truthy(queryPipeInner(node))
        THEN QThrown("pipe schema missing inner or value")
        ELSE unwrapObjectLikeQuerySchema(st, queryPipeInner(node), depth + 1)
    ELSE IF node.type = "union" THEN
        IF "options" \notin node.has \/ Len(node.options) = 0
        THEN QThrown("union schema missing options")
        ELSE unwrapUnionOptions(st, schema, node.options, 1, <<>>, depth)
    ELSE QThrown("must be an object schema or a union/pipe/optional/nullable of objects")

\* the loop over the options from option i on; i = 1 stands for baseKeys === null
unwrapUnionOptions(st, schema, options, i, baseKeys, depth) ==
    IF i > Len(options) THEN QRet(schema)
    ELSE LET unwrapped == unwrapObjectLikeQuerySchema(st, options[i], depth + 1) IN
         IF unwrapped.k = "throw" THEN unwrapped
         ELSE IF "entries" \notin N(st, unwrapped.id).has
         THEN QThrown("union option is not an object schema")
         ELSE LET keys == objectKeys(N(st, unwrapped.id)) IN
              IF i = 1 THEN unwrapUnionOptions(st, schema, options, 2, keys, depth)
              ELSE IF keysDiffer(baseKeys, keys)
              THEN QThrown("union query schema options must expose the same object fields")
              ELSE unwrapUnionOptions(st, schema, options, i + 1, baseKeys, depth)

\* sanitizeQuerySchema(raw)
sanitizeQuerySchema(st, raw) == unwrapObjectLikeQuerySchema(st, raw, 0)

(***************************************************************************)
(* validation.ts: the JavaScript values a module hands to the sanitizer     *)
(*                                                                         *)
(* A value is a tagged record.  A string is the sequence of its characters, *)
(* a "node" is an object of the schema heap, a "ref" is an object of objs.  *)
(***************************************************************************)
JUndefined == [t |-> "undefined", v |-> 0]
JNull == [t |-> "null", v |-> 0]
JString(cs) == [t |-> "string", v |-> cs]
JBoolean(b) == [t |-> "boolean", v |-> b]
JNumber(n) == [t |-> "number", v |-> n]
JSchema(id) == [t |-> "node", v |-> id]
JRef(id) == [t |-> "ref", v |-> id]

\* an object of objs: props are its own enumerable string-keyed properties in
\* the order Object.entries lists them
JsObject(proto, props) ==
    [cls |-> "object", proto |-> proto, props |-> props, symbols |-> FALSE,
     accessors |-> {}, frozen |-> FALSE, arity |-> 0, returns |-> JUndefined]
JsArray(items) ==
    [JsObject("Array", [i \in 1..Len(items) |-> <<<<"#">>, items[i]>>])
        EXCEPT !.cls = "array"]
JsFunction(arity, returns) ==
    [JsObject("Function", <<>>) EXCEPT !.cls = "function", !.arity = arity,
                                       !.returns = returns]
FreeObject == [JsObject("null", <<>>) EXCEPT !.cls = "free"]

typeof(h, x) ==
    CASE x.t \in {"undefined", "string", "boolean", "number"} -> x.t
      [] x.t \in {"null", "node"} -> "object"
      [] OTHER -> IF h.objs[x.v].cls = "function" THEN "function" ELSE "object"

isArray(h, x) == x.t = "ref" /\ h.objs[x.v].cls = "array"

\* !!x
JsTruthy(x) ==
    CASE x.t \in {"undefined", "null"} -> FALSE
      [] x.t = "string" -> Len(x.v) > 0
      [] x.t = "boolean" -> x.v
      [] x.t = "number" -> x.v # 0
      [] OTHER -> TRUE

\* Object.entries(x) of an object
entriesOf(h, x) ==
    IF x.t = "ref" THEN h.objs[x.v].props
    ELSE <<<<<<"k", "i", "n", "d">>, JUndefined>>, <<<<"t", "y", "p", "e">>, JUndefined>>>>

\* x[key]
Get(h, x, key) ==
    IF x.t # "ref" THEN JUndefined
    ELSE LET ps == h.objs[x.v].props
             hit == {i \in 1..Len(ps) : ps[i][1] = key}
         IN  IF hit = {} THEN JUndefined ELSE ps[CHOOSE i \in hit : TRUE][2]

\* key in x
In(h, x, key) ==
    x.t = "ref" /\ \E i \in 1..Len(h.objs[x.v].props) : h.objs[x.v].props[i][1] = key

\* a new object; the heap is marked full when no slot is left
NewObject(h, obj) ==
    IF h.next \in DOMAIN h.objs
    THEN [id |-> h.next, h |-> [h EXCEPT !.objs[h.next] = obj, !.next = h.next + 1]]
    ELSE [id |-> h.next, h |-> [h EXCEPT !.full = TRUE]]

\* Object.freeze(o)
Freeze(h, id) ==
    IF id \in DOMAIN h.objs THEN [h EXCEPT !.objs[id].frozen = TRUE] ELSE h

\* the property list after o[key] = value
Assign(props, key, value) ==
    IF \E i \in 1..Len(props) : props[i][1] = key
    THEN [i \in 1..Len(props) |-> IF props[i][1] = key THEN <<key, value>> ELSE props[i]]
    ELSE Append(props, <<key, value>>)

(***************************************************************************)
(* Strings                                                                 *)
(***************************************************************************)
DigitSeq == <<"0", "1", "2", "3", "4", "5", "6", "7", "8", "9">>
Digits == {DigitSeq[i] : i \in 1..Len(DigitSeq)}
Letters ==
    {"a", "b", "c", "d", "e", "f", "g", "h", "i", "j", "k", "l", "m", "n", "o",
     "p", "q", "r", "s", "t", "u", "v", "w", "x", "y", "z",
     "A", "B", "C", "D", "E", "F", "G", "H", "I", "J", "K", "L", "M", "N", "O",
     "P", "Q", "R", "S", "T", "U", "V", "W", "X", "Y", "Z"}
\* the characters \s matches, among those the fixtures use
WhiteSpace == {" ", "\t", "\n"}

Min(a, b) == IF a <= b THEN a ELSE b
Range(f) == {f[i] : i \in DOMAIN f}

\* String.prototype.trim
trim(cs) ==
    LET solid == {i \in 1..Len(cs) : cs[i] \notin WhiteSpace}
    IN  IF solid = {} THEN <<>>
        ELSE SubSeq(cs, CHOOSE i \in solid : \A j \in solid : i <= j,
                        CHOOSE i \in solid : \A j \in solid : j <= i)

\* cs.slice(0, n)
slice(cs, n) == SubSeq(cs, 1, Min(n, Len(cs)))

\* the string with these characters
RECURSIVE Join(_)
Join(cs) == IF cs = <<>> THEN "" ELSE Head(cs) \o Join(Tail(cs))

(***************************************************************************)
(* validation.ts: the sanitizer                                            *)
(***************************************************************************)
MAX_ENDPOINTS_PER_MODULE == 32
MAX_RESPONSES_PER_ENDPOINT == 32
MAX_TAGS_PER_ENDPOINT == 16
MAX_DOC_STRING_LENGTH == 512
MAX_OPERATION_ID_LENGTH == 256

sDELETE == <<"D", "E", "L", "E", "T", "E">>
sGET == <<"G", "E", "T">>
sPATCH == <<"P", "A", "T", "C", "H">>
sPOST == <<"P", "O", "S", "T">>
sPUT == <<"P", "U", "T">>
VALID_METHODS == {sDELETE, sGET, sPATCH, sPOST, sPUT}

FORBIDDEN_KEYS ==
    {<<"_", "_", "p", "r", "o", "t", "o", "_", "_">>,
     <<"c", "o", "n", "s", "t", "r", "u", "c", "t", "o", "r">>,
     <<"p", "r", "o", "t", "o", "t", "y", "p", "e">>}

kOpenapi == <<"_", "o", "p", "e", "n", "a", "p", "i">>
kBody == <<"b", "o", "d", "y">>
kContent == <<"c", "o", "n", "t", "e", "n", "t">>
kDeprecated == <<"d", "e", "p", "r", "e", "c", "a", "t", "e", "d">>
kDescription == <<"d", "e", "s", "c", "r", "i", "p", "t", "i", "o", "n">>
kMethod == <<"m", "e", "t", "h", "o", "d">>
kOperationId == <<"o", "p", "e", "r", "a", "t", "i", "o", "n", "I", "d">>
kPath == <<"p", "a", "t", "h">>
kQuery == <<"q", "u", "e", "r", "y">>
kQueryParams == <<"q", "u", "e", "r", "y", "P", "a", "r", "a", "m", "s">>
kRequired == <<"r", "e", "q", "u", "i", "r", "e", "d">>
kResponses == <<"r", "e", "s", "p", "o", "n", "s", "e", "s">>
kSchema == <<"s", "c", "h", "e", "m", "a">>
kSecurity == <<"s", "e", "c", "u", "r", "i", "t", "y">>
kSummary == <<"s", "u", "m", "m", "a", "r", "y">>
kTags == <<"t", "a", "g", "s">>

\* the outcome of a sanitizer function: a value or an Error, and the heap
SRet(v, h) == [k |-> "ret", v |-> v, msg |-> "", h |-> h]
SThrown(msg, h) == [k |-> "throw", v |-> JUndefined, msg |-> msg, h |-> h]

\* isValibotSchema(x) of a value
isValibotSchemaValue(st, x) == x.t = "node" /\ isValibotSchema(st, x.v)

\* /^[A-Za-z0-9!#$&^_.+-]+\/[A-Za-z0-9!#$&^_.+-]+$/.test(mediaType)
MediaTypeChars == Letters \cup Digits \cup {"!", "#", "$", "&", "^", "_", ".", "+", "-"}
isValidMediaType(mediaType) ==
    \E i \in 2..(Len(mediaType) - 1) :
        /\ mediaType[i] = "/"
        /\ \A j \in 1..Len(mediaType) : j # i => mediaType[j] \in MediaTypeChars

\* /^[0-9]{3}$/.test(status)
isStatusCode(status) == Len(status) = 3 /\ \A i \in 1..3 : status[i] \in Digits

\* the message assertSafePlainRecord throws, "" when it returns
assertSafePlainRecordIgnoringAccessors(h, value, label) ==
    IF ~JsTruthy(value) \/ typeof(h, value) # "object" \/ isArray(h, value)
    THEN label \o " must be a plain object"
    ELSE IF value.t = "node" THEN ""
    ELSE IF h.objs[value.v].proto \notin {"Object", "null"}
    THEN label \o " must not have a custom prototype"
    ELSE IF \E i \in 1..Len(h.objs[value.v].props) :
                h.objs[value.v].props[i][1] \in FORBIDDEN_KEYS
    THEN label \o " contains forbidden key"
    ELSE IF h.objs[value.v].symbols THEN label \o " must not use symbol keys"
    ELSE ""
assertSafePlainRecord(h, value, label) ==
    IF ~JsTruthy(value) \/ typeof(h, value) # "object" \/ isArray(h, value)
    THEN label \o " must be a plain object"
    ELSE IF value.t = "node" THEN ""
    ELSE LET o == h.objs[value.v]
             keys == [i \in 1..Len(o.props) |-> o.props[i][1]]
         IN  IF o.proto \notin {"Object", "null"}
             THEN label \o " must not have a custom prototype"
             ELSE IF \E i \in 1..Len(keys) : keys[i] \in FORBIDDEN_KEYS
             THEN label \o " contains forbidden key"
             ELSE IF o.symbols THEN label \o " must not use symbol keys"
             ELSE IF o.accessors # {} THEN label \o " must not use accessors"
             ELSE ""

isValidEndpointDef(h, def) ==
    LET allowed == {kBody, kDeprecated, kDescription, kMethod, kOperationId, kPath,
                    kQuery, kQueryParams, kResponses, kSecurity, kSummary, kTags}
        method == Get(h, def, kMethod)
        keys == entriesOf(h, def)
    IN  /\ JsTruthy(def) /\ typeof(h, def) = "object" /\ ~isArray(h, def)
        /\ method.t = "string" /\ method.v \in VALID_METHODS
        /\ \A i \in 1..Len(keys) : keys[i][1] \in allowed
        /\ Get(h, def, kResponses).t # "undefined"

sanitizeDocStringUnbounded(value, maxLength) ==
    IF value.t # "string" \/ trim(value.v) = <<>> THEN JUndefined ELSE JString(trim(value.v))
sanitizeDocString(value, maxLength) ==
    IF value.t # "string" THEN JUndefined
    ELSE LET trimmed == trim(value.v)
         IN  IF trimmed = <<>> THEN JUndefined
             ELSE IF Len(trimmed) > maxLength THEN JString(slice(trimmed, maxLength))
             ELSE JString(trimmed)

\* returns the new array and the heap
sanitizeTags(h, raw) ==
    LET items == [i \in 1..Len(h.objs[raw.v].props) |-> h.objs[raw.v].props[i][2]]
        kept(x) == x.t = "string" /\ trim(x.v) # <<>>
        all == SelectSeq(items, kept)
        tags == [i \in 1..Min(Len(all), MAX_TAGS_PER_ENDPOINT) |->
                    JString(slice(trim(all[i].v), 64))]
        a == NewObject(h, JsArray(tags))
    IN  [v |-> JRef(a.id), length |-> Len(tags), h |-> a.h]

\* the first entry of a content map that is refused, 0 when none is
firstBadContent(st, entries) ==
    LET bad == {i \in 1..Len(entries) :
                    \/ ~isValidMediaType(entries[i][1])
                    \/ ~isValibotSchemaValue(st, entries[i][2])}
    IN  IF bad = {} THEN 0 ELSE CHOOSE i \in bad : \A j \in bad : i <= j

contentError(st, entries, label) ==
    LET i == firstBadContent(st, entries)
    IN  IF i = 0 THEN ""
        ELSE IF ~isValidMediaType(entries[i][1])
        THEN label \o " media type is invalid"
        ELSE label \o " must be a Valibot schema"

\* the answer of a function that returns the object just created
Created(a) == SRet(JRef(a.id), a.h)
\* ... and freezes it first
CreatedFrozen(a) == SRet(JRef(a.id), Freeze(a.h, a.id))

\* the object sanitizeBodyDef builds around its cleanContent
bodyOut(h, raw, cleanContent, desc) ==
    CreatedFrozen(NewObject(cleanContent.h, JsObject("null",
        <<<<kContent, JRef(cleanContent.id)>>>>
        \o (IF Get(h, raw, kDescription).t = "string" /\ JsTruthy(desc)
            THEN <<<<kDescription, desc>>>> ELSE <<>>)
        \o (IF Get(h, raw, kRequired).t = "boolean"
            THEN <<<<kRequired, Get(h, raw, kRequired)>>>> ELSE <<>>))))

\* sanitizeBodyDef once raw is known to be a record with a content key
bodyContent(st, h, raw, content, unsafe, refused) ==
    IF unsafe # "" THEN SThrown(unsafe, h)
    ELSE IF refused # "" THEN SThrown(refused, h)
    ELSE bodyOut(h, raw, NewObject(h, JsObject("null", entriesOf(h, content))),
                 sanitizeDocString(Get(h, raw, kDescription), MAX_DOC_STRING_LENGTH))

bodyRecord(st, h, raw, unsafe) ==
    IF unsafe # "" THEN SThrown(unsafe, h)
    ELSE IF ~In(h, raw, kContent)
    THEN SThrown("endpoint.body object must contain a content map or be a Valibot schema", h)
    ELSE bodyContent(st, h, raw, Get(h, raw, kContent),
                     assertSafePlainRecord(h, Get(h, raw, kContent), "endpoint.body.content"),
                     contentError(st, entriesOf(h, Get(h, raw, kContent)),
                                  "endpoint.body.content"))

sanitizeBodyDef(st, h, raw) ==
    IF raw.t \in {"undefined", "null"} THEN SRet(raw, h)
    ELSE IF isValibotSchemaValue(st, raw) THEN SRet(raw, h)
    ELSE bodyRecord(st, h, raw, assertSafePlainRecord(h, raw, "endpoint.body"))

\* the properties sanitizeResponseDef writes to out
responseProps(description, desc, schema, content) ==
    (IF description.t # "undefined" /\ JsTruthy(desc)
     THEN <<<<kDescription, desc>>>> ELSE <<>>)
    \o (IF schema.t # "undefined" THEN <<<<kSchema, schema>>>> ELSE <<>>)
    \o (IF content.t # "undefined" THEN <<<<kContent, content>>>> ELSE <<>>)

\* sanitizeResponseDef once def is known to be a safe record
responseFields(st, h, label, keys, schema, content, props) ==
    IF schema.t # "undefined" /\ ~isValibotSchemaValue(st, schema)
    THEN SThrown(label \o ".schema must be a Valibot schema", h)
    ELSE IF content.t # "undefined"
            /\ assertSafePlainRecord(h, content, label \o ".content") # ""
    THEN SThrown(assertSafePlainRecord(h, content, label \o ".content"), h)
    ELSE IF content.t # "undefined"
            /\ contentError(st, entriesOf(h, content), label \o ".content") # ""
    THEN SThrown(contentError(st, entriesOf(h, content), label \o ".content"), h)
    ELSE IF \E i \in 1..Len(keys) : keys[i][1] \notin {kContent, kDescription, kSchema}
    THEN SThrown(label \o " contains unsupported key", h)
    ELSE IF props = <<>>
    THEN SThrown(label \o " must define at least description, schema, or content", h)
    ELSE CreatedFrozen(NewObject(h, JsObject("null", props)))

responseRecord(st, h, label, def, unsafe) ==
    IF unsafe # "" THEN SThrown(unsafe, h)
    ELSE responseFields(st, h, label, entriesOf(h, def), Get(h, def, kSchema),
                        Get(h, def, kContent),
                        responseProps(Get(h, def, kDescription),
                                      sanitizeDocString(Get(h, def, kDescription),
                                                        MAX_DOC_STRING_LENGTH),
                                      Get(h, def, kSchema), Get(h, def, kContent)))

responseLabel(status) == "responses[" \o Join(status) \o "]"

sanitizeResponseDef(st, h, status, def) ==
    responseRecord(st, h, responseLabel(status), def,
                   assertSafePlainRecord(h, def, responseLabel(status)))

\* the loop of sanitizeResponses from entry i on; clean holds the properties
\* written so far
RECURSIVE sanitizeResponsesFrom(_, _, _, _, _, _)
RECURSIVE responsesNext(_, _, _, _, _, _)
sanitizeResponsesFrom(st, h, entries, i, clean, count) ==
    IF i > Len(entries) \/ count >= MAX_RESPONSES_PER_ENDPOINT
    THEN Created(NewObject(h, JsObject("null", clean)))
    ELSE IF ~isStatusCode(entries[i][1])
    THEN SThrown("responses key is not a 3-digit status code", h)
    ELSE responsesNext(st, entries, i, clean, count,
                       sanitizeResponseDef(st, h, entries[i][1], entries[i][2]))

\* the rest of an iteration, safeDef being what sanitizeResponseDef answered
responsesNext(st, entries, i, clean, count, safeDef) ==
    IF safeDef.k = "throw" THEN safeDef
    ELSE sanitizeResponsesFrom(st, safeDef.h, entries, i + 1,
                               Assign(clean, entries[i][1], safeDef.v), count + 1)

responsesRecordAllowsEmpty(st, h, entries, unsafe) ==
    IF unsafe # "" THEN SThrown(unsafe, h)
    ELSE IF Len(entries) > MAX_RESPONSES_PER_ENDPOINT
    THEN SThrown("responses has invalid size", h)
    ELSE sanitizeResponsesFrom(st, h, entries, 1, <<>>, 0)
responsesRecord(st, h, entries, unsafe) ==
    IF unsafe # "" THEN SThrown(unsafe, h)
    ELSE IF Len(entries) = 0 \/ Len(entries) > MAX_RESPONSES_PER_ENDPOINT
    THEN SThrown("responses has invalid size", h)
    ELSE sanitizeResponsesFrom(st, h, entries, 1, <<>>, 0)

sanitizeResponses(st, h, raw) ==
    responsesRecord(st, h, entriesOf(h, raw), assertSafePlainRecord(h, raw, "responses"))

\* the answer of the sanitizer for what sanitizeQuerySchema did
queryAnswer(h, r) == IF r.k = "throw" THEN SThrown(r.msg, h) ELSE SRet(JSchema(r.id), h)

\* sanitizeQuerySchema(raw) of a value
sanitizeQuerySchemaValue(st, h, raw) ==
    IF raw.t # "node" THEN SThrown("must be a Valibot schema", h)
    ELSE queryAnswer(h, sanitizeQuerySchema(st, raw.v))

\* the loop of sanitizeQueryParams from entry i on; allowedKeys is the set of
\* field names, restricted tells whether allowedKeys is defined
RECURSIVE sanitizeQueryParamsFrom(_, _, _, _, _, _)
RECURSIVE queryParamsNext(_, _, _, _, _, _, _)
sanitizeQueryParamsFrom(h, entries, i, clean, restricted, allowedKeys) ==
    IF i > Len(entries)
    THEN Created(NewObject(h, JsObject("null", clean)))
    ELSE IF restricted /\ Join(entries[i][1]) \notin allowedKeys
    THEN SThrown("queryParams[" \o Join(entries[i][1])
                 \o "] does not match any field in query schema", h)
    ELSE queryParamsNext(h, entries, i, clean, restricted, allowedKeys,
                         assertSafePlainRecord(h, entries[i][2],
                                               "queryParams[" \o Join(entries[i][1]) \o "]"))

\* clean[key] = Object.freeze({ ...doc })
queryParamsCopy(entries, i, clean, restricted, allowedKeys, copy) ==
    sanitizeQueryParamsFrom(Freeze(copy.h, copy.id), entries, i + 1,
                            Assign(clean, entries[i][1], JRef(copy.id)),
                            restricted, allowedKeys)

queryParamsNext(h, entries, i, clean, restricted, allowedKeys, unsafe) ==
    IF unsafe # "" THEN SThrown(unsafe, h)
    ELSE queryParamsCopy(entries, i, clean, restricted, allowedKeys,
                         NewObject(h, JsObject("Object", entriesOf(h, entries[i][2]))))

\* Object.keys(entries) of the object schema, as a set
allowedKeysOf(n) == {n.entries[i][1] : i \in 1..Len(n.entries)}

\* sanitizeQueryParams once objectSchema is what the query schema unwrapped to
queryParamsOver(st, h, raw, querySchema, objectSchema) ==
    IF JsTruthy(querySchema) /\ objectSchema.k = "throw" THEN objectSchema
    ELSE IF JsTruthy(querySchema) /\ "entries" \in N(st, objectSchema.v.v).has
    THEN sanitizeQueryParamsFrom(h, entriesOf(h, raw), 1, <<>>, TRUE,
                                 allowedKeysOf(N(st, objectSchema.v.v)))
    ELSE sanitizeQueryParamsFrom(h, entriesOf(h, raw), 1, <<>>, FALSE, {})

sanitizeQueryParams(st, h, raw, querySchema) ==
    IF assertSafePlainRecord(h, raw, "queryParams") # ""
    THEN SThrown(assertSafePlainRecord(h, raw, "queryParams"), h)
    ELSE queryParamsOver(st, h, raw, querySchema,
                         sanitizeQuerySchemaValue(st, h, querySchema))

\* Array.isArray(def.tags) ? sanitizeTags(def.tags) : nothing
endpointTags(h, rawTags) ==
    IF isArray(h, rawTags) THEN sanitizeTags(h, rawTags)
    ELSE [v |-> JUndefined, length |-> 0, h |-> h]

\* the properties sanitizeEndpointDef writes to safe, in the order it writes
endpointProps(h, def, tags, querySchema, queryParams, body, responses) ==
    <<<<kMethod, Get(h, def, kMethod)>>>>
    \o (IF Get(h, def, kPath).t = "string" /\ Len(trim(Get(h, def, kPath).v)) > 0
           /\ trim(Get(h, def, kPath).v)[1] = "/"
           /\ \A c \in Range(trim(Get(h, def, kPath).v)) : c \notin WhiteSpace
        THEN <<<<kPath, JString(trim(Get(h, def, kPath).v))>>>> ELSE <<>>)
    \o (IF JsTruthy(sanitizeDocString(Get(h, def, kSummary), MAX_DOC_STRING_LENGTH))
        THEN <<<<kSummary, sanitizeDocString(Get(h, def, kSummary), MAX_DOC_STRING_LENGTH)>>>>
        ELSE <<>>)
    \o (IF JsTruthy(sanitizeDocString(Get(h, def, kDescription), MAX_DOC_STRING_LENGTH))
        THEN <<<<kDescription,
                 sanitizeDocString(Get(h, def, kDescription), MAX_DOC_STRING_LENGTH)>>>>
        ELSE <<>>)
    \o (IF Get(h, def, kOperationId).t = "string"
           /\ Len(trim(Get(h, def, kOperationId).v)) > 0
        THEN <<<<kOperationId,
                 JString(slice(trim(Get(h, def, kOperationId).v), MAX_OPERATION_ID_LENGTH))>>>>
        ELSE <<>>)
    \o (IF Get(h, def, kDeprecated).t = "boolean"
        THEN <<<<kDeprecated, Get(h, def, kDeprecated)>>>> ELSE <<>>)
    \o (IF tags.length > 0 THEN <<<<kTags, tags.v>>>> ELSE <<>>)
    \o (IF JsTruthy(querySchema.v) THEN <<<<kQuery, querySchema.v>>>> ELSE <<>>)
    \o (IF Get(h, def, kQueryParams).t # "undefined"
        THEN <<<<kQueryParams, queryParams.v>>>> ELSE <<>>)
    \o (IF Get(h, def, kBody).t # "undefined" THEN <<<<kBody, body.v>>>> ELSE <<>>)
    \o (IF Get(h, def, kResponses).t # "undefined"
        THEN <<<<kResponses, responses.v>>>> ELSE <<>>)
    \o (IF isArray(h, Get(h, def, kSecurity))
        THEN <<<<kSecurity, Get(h, def, kSecurity)>>>> ELSE <<>>)

\* sanitizeEndpointDef, one field after the other: each stage is given what
\* the stages before it answered
endpointSafe(h, def, tags, querySchema, queryParams, body, responses) ==
    IF responses.k = "throw" THEN responses
    ELSE CreatedFrozen(NewObject(responses.h, JsObject("null",
            endpointProps(h, def, tags, querySchema, queryParams, body, responses))))

endpointResponses(st, h, def, tags, querySchema, queryParams, body) ==
    IF body.k = "throw" THEN body
    ELSE endpointSafe(h, def, tags, querySchema, queryParams, body,
            IF Get(h, def, kResponses).t # "undefined"
            THEN sanitizeResponses(st, body.h, Get(h, def, kResponses))
            ELSE SRet(JUndefined, body.h))

endpointBody(st, h, def, tags, querySchema, queryParams) ==
    IF queryParams.k = "throw" THEN queryParams
    ELSE endpointResponses(st, h, def, tags, querySchema, queryParams,
            IF Get(h, def, kBody).t # "undefined"
            THEN sanitizeBodyDef(st, queryParams.h, Get(h, def, kBody))
            ELSE SRet(JUndefined, queryParams.h))

endpointQueryParams(st, h, def, tags, querySchema) ==
    IF querySchema.k = "throw" THEN querySchema
    ELSE endpointBody(st, h, def, tags, querySchema,
            IF Get(h, def, kQueryParams).t # "undefined"
            THEN sanitizeQueryParams(st, querySchema.h, Get(h, def, kQueryParams),
                                     querySchema.v)
            ELSE SRet(JUndefined, querySchema.h))

endpointQuery(st, h, def, tags) ==
    endpointQueryParams(st, h, def, tags,
        IF Get(h, def, kQuery).t # "undefined"
        THEN sanitizeQuerySchemaValue(st, tags.h, Get(h, def, kQuery))
        ELSE SRet(JUndefined, tags.h))

sanitizeEndpointDef(st, h, def) ==
    endpointQuery(st, h, def, endpointTags(h, Get(h, def, kTags)))

\* Object.freeze(cleanApi) and the frozen { _openapi: frozenApi }
moduleResult(frozenApi) ==
    CreatedFrozen(NewObject(Freeze(frozenApi.h, frozenApi.id),
                            JsObject("Object", <<<<kOpenapi, JRef(frozenApi.id)>>>>)))

\* the loop of sanitizeOpenApiModule from entry i on
RECURSIVE sanitizeModuleFrom(_, _, _, _, _, _)
RECURSIVE moduleNext(_, _, _, _, _, _)
sanitizeModuleFrom(st, h, entries, i, cleanApi, count) ==
    IF i > Len(entries) \/ count >= MAX_ENDPOINTS_PER_MODULE
    THEN moduleResult(NewObject(h, JsObject("null", cleanApi)))
    ELSE IF entries[i][1] \notin VALID_METHODS \/ ~isValidEndpointDef(h, entries[i][2])
    THEN sanitizeModuleFrom(st, h, entries, i + 1, cleanApi, count)
    ELSE moduleNext(st, entries, i, cleanApi, count,
                    sanitizeEndpointDef(st, h, entries[i][2]))

\* the rest of an iteration, safeDef being what sanitizeEndpointDef answered
moduleNext(st, entries, i, cleanApi, count, safeDef) ==
    IF safeDef.k = "throw" THEN safeDef
    ELSE sanitizeModuleFrom(st, safeDef.h, entries, i + 1,
                            Assign(cleanApi, entries[i][1], safeDef.v), count + 1)

sanitizeOpenApiModule(st, h, mod) ==
    IF assertSafePlainRecord(h, Get(h, mod, kOpenapi), "module._openapi") # ""
    THEN SThrown(assertSafePlainRecord(h, Get(h, mod, kOpenapi), "module._openapi"), h)
    ELSE sanitizeModuleFrom(st, h, entriesOf(h, Get(h, mod, kOpenapi)), 1, <<>>, 0)

\* create-specs.ts: unwrapModule(maybe, depth); reading _openapi of
\* (maybe ?? {}) and of an undefined or null maybe both give undefined
RECURSIVE unwrapModule(_, _, _, _)
RECURSIVE unwrapFallback(_, _, _, _, _)
unwrapModule(st, h, maybe, depth) ==
    IF depth > 2 THEN SRet(JNull, h)
    ELSE unwrapFallback(st, h, maybe, depth, sanitizeOpenApiModule(st, h, maybe))

\* what unwrapModule does after the try block has ended as sanitized
unwrapFallback(st, h, maybe, depth, sanitized) ==
    IF sanitized.k = "ret" THEN sanitized
    ELSE IF typeof(h, maybe) = "function" /\ h.objs[maybe.v].arity = 0
    THEN unwrapModule(st, h, h.objs[maybe.v].returns, depth + 1)
    ELSE SRet(JNull, h)

(***************************************************************************)
(* create-specs.ts: createOpenApiSpec.  The document is a value: paths is  *)
(* the list of <<path, items>> in insertion order, items the list of       *)
(* <<method, operation>>.  A conversion answers [k, v, msg, cx], cx being  *)
(* the normaliser state, the export cache and the log after it.  The       *)
(* exporter policy ex tells the outcome of toJsonSchema on each node.      *)
(***************************************************************************)
Cx(st, sc, lg) == [st |-> st, sc |-> sc, lg |-> lg]
CRet(v, cx) == [k |-> "ret", v |-> v, msg |-> "", cx |-> cx]
CThrown(msg, cx) == [k |-> "throw", v |-> <<>>, msg |-> msg, cx |-> cx]

kApplicationJson ==
    <<"a", "p", "p", "l", "i", "c", "a", "t", "i", "o", "n", "/", "j", "s", "o", "n">>
baseDir == <<"/", "s", "r", "c", "/", "r", "o", "u", "t", "e", "s">>
ServerSuffixes ==
    {<<"/", "+", "s", "e", "r", "v", "e", "r", ".", "t", "s">>,
     <<"/", "+", "s", "e", "r", "v", "e", "r", ".", "j", "s">>}
\* the character U+2026
Ellipsis == "..."

startsWith(cs, prefix) == Len(prefix) <= Len(cs) /\ SubSeq(cs, 1, Len(prefix)) = prefix
endsWith(cs, suffix) ==
    Len(suffix) <= Len(cs) /\ SubSeq(cs, Len(cs) - Len(suffix) + 1, Len(cs)) = suffix

UpperCase ==
    <<"A", "B", "C", "D", "E", "F", "G", "H", "I", "J", "K", "L", "M",
      "N", "O", "P", "Q", "R", "S", "T", "U", "V", "W", "X", "Y", "Z">>
LowerCase ==
    <<"a", "b", "c", "d", "e", "f", "g", "h", "i", "j", "k", "l", "m",
      "n", "o", "p", "q", "r", "s", "t", "u", "v", "w", "x", "y", "z">>
\* toLowerHttpMethod: method.toLowerCase()
toLowerHttpMethod(method) ==
    [i \in 1..Len(method) |->
        IF \E j \in 1..26 : UpperCase[j] = method[i]
        THEN LowerCase[CHOOSE j \in 1..26 : UpperCase[j] = method[i]]
        ELSE method[i]]

\* the first position from i on that holds c, or 0
firstAt(cs, i, c) ==
    IF \E j \in i..Len(cs) : cs[j] = c
    THEN CHOOSE j \in i..Len(cs) : cs[j] = c /\ \A m \in i..(j - 1) : cs[m] # c
    ELSE 0

\* path.replace(/\[([^\]]+)\]/g, '{$1}') from position i on
RECURSIVE bracesFrom(_, _)
bracesFrom(cs, i) ==
    IF i > Len(cs) THEN <<>>
    ELSE IF cs[i] = "[" /\ firstAt(cs, i + 1, "]") > i + 1
    THEN <<"{">> \o SubSeq(cs, i + 1, firstAt(cs, i + 1, "]") - 1) \o <<"}">>
         \o bracesFrom(cs, firstAt(cs, i + 1, "]") + 1)
    ELSE <<cs[i]>> \o bracesFrom(cs, i + 1)

\* path.replace(/\/\+server\.(ts|js)$/, '')
dropServerSuffix(cs) ==
    IF \E s \in ServerSuffixes : endsWith(cs, s)
    THEN SubSeq(cs, 1, Len(cs) - 11)
    ELSE cs

withLeadingSlash(cs) == IF startsWith(cs, <<"/">>) THEN cs ELSE <<"/">> \o cs

\* shortenFilePath(path, 3)
shortenFilePath(path) ==
    LET seps == {i \in 1..Len(path) : path[i] \in {"/", "\\"}}
        cut == CHOOSE i \in seps : Cardinality({j \in seps : j >= i}) = 3
    IN  IF Cardinality(seps) + 1 <= 3 THEN path
        ELSE <<Ellipsis, "/">> \o
             [i \in 1..(Len(path) - cut) |->
                 IF path[cut + i] = "\\" THEN "/" ELSE path[cut + i]]

\* a call logger[level](msg, context) of createOpenApiSpec and its helpers
LogContext(level, msg, detail, file, method) ==
    [level |-> level, msg |-> msg, detail |-> detail, file |-> file, method |-> method]

\* inferPathFromFile(file): the path, and the log after the call
inferPathFromFile(file, lg) ==
    [path |-> withLeadingSlash(bracesFrom(dropServerSuffix(
                  IF startsWith(file, baseDir)
                  THEN SubSeq(file, Len(baseDir) + 1, Len(file)) ELSE file), 1)),
     lg |-> IF startsWith(file, baseDir) THEN lg
            ELSE Append(lg, LogContext("warn",
                     "inferPathFromFile: file path does not start with configured baseDir.",
                     "", shortenFilePath(file), <<>>))]

\* inferPathParamsFromPath(path): the names of the parameters, from position i on
RECURSIVE pathParamsFrom(_, _, _)
pathParamsFrom(cs, i, names) ==
    IF i > Len(cs) THEN names
    ELSE IF cs[i] = "{" /\ firstAt(cs, i + 1, "}") > i + 1
    THEN pathParamsFrom(cs, firstAt(cs, i + 1, "}") + 1,
             IF trim(SubSeq(cs, i + 1, firstAt(cs, i + 1, "}") - 1)) = <<>>
                \/ \E n \in 1..Len(names) :
                       names[n] = trim(SubSeq(cs, i + 1, firstAt(cs, i + 1, "}") - 1))
             THEN names
             ELSE Append(names, trim(SubSeq(cs, i + 1, firstAt(cs, i + 1, "}") - 1))))
    ELSE pathParamsFrom(cs, i + 1, names)
inferPathParamsFromPath(path) == pathParamsFrom(path, 1, <<>>)

\* the value of key in a list of <<key, value>>, or otherwise
Lookup(pairs, key, otherwise) ==
    IF \E i \in 1..Len(pairs) : pairs[i][1] = key
    THEN pairs[CHOOSE i \in 1..Len(pairs) : pairs[i][1] = key][2]
    ELSE otherwise

\* the outcome of toJsonSchema on prepared: ex.e on the nodes of ex.hit, an
\* object schema on the others
exporterOutcome(ex, prepared) == IF prepared \in ex.hit THEN ex.e ELSE "object"

asConversion(res) ==
    IF res.k = "throw" THEN CThrown(res.msg, Cx(res.st, res.sc, res.log))
    ELSE CRet(res.json, Cx(res.st, res.sc, res.log))
exportWith(ex, n, typeMode, cx) ==
    asConversion(exportPrepared(n, typeMode, exporterOutcome(ex, n.id), cx.sc, cx.lg))
\* toCleanJsonSchema(schema, typeMode) of a value
cleanValue(ex, schema, typeMode, cx) ==
    exportWith(ex, normalizeSchema(IF schema.t = "node" THEN schema.v ELSE ImpN,
                                   freshBudget, cx.st), typeMode, cx)

\* convertContentMap(content, typeMode), from entry i on
RECURSIVE convertContentFrom(_, _, _, _, _, _)
RECURSIVE contentNext(_, _, _, _, _, _)
convertContentFrom(ex, entries, typeMode, i, out, cx) ==
    IF i > Len(entries) THEN CRet(out, cx)
    ELSE IF ~isValidMediaType(entries[i][1]) THEN CThrown("Invalid media type", cx)
    ELSE IF ~JsTruthy(entries[i][2])
    THEN convertContentFrom(ex, entries, typeMode, i + 1, out, cx)
    ELSE IF ~isValibotSchemaValue(cx.st, entries[i][2])
    THEN CThrown("content must be a Valibot schema", cx)
    ELSE contentNext(ex, entries, typeMode, i, out,
                     cleanValue(ex, entries[i][2], typeMode, cx))
contentNext(ex, entries, typeMode, i, out, jsonSchema) ==
    IF jsonSchema.k = "throw" THEN jsonSchema
    ELSE convertContentFrom(ex, entries, typeMode, i + 1,
                            Assign(out, entries[i][1], jsonSchema.v), jsonSchema.cx)

\* convertResponses(responses), from entry i on
RECURSIVE convertResponsesFrom(_, _, _, _, _, _)
RECURSIVE responseContent(_, _, _, _, _, _)
RECURSIVE responseSchema(_, _, _, _, _, _, _)
RECURSIVE responseDone(_, _, _, _, _, _, _)
convertResponsesFrom(ex, h, entries, i, out, cx) ==
    IF i > Len(entries) THEN CRet(out, cx)
    ELSE responseContent(ex, h, entries, i, out,
             IF JsTruthy(Get(h, entries[i][2], kContent))
             THEN convertContentFrom(ex, entriesOf(h, Get(h, entries[i][2], kContent)),
                                     "output", 1, <<>>, cx)
             ELSE CRet(<<>>, cx))
responseContent(ex, h, entries, i, out, converted) ==
    IF converted.k = "throw" THEN converted
    ELSE IF JsTruthy(Get(h, entries[i][2], kSchema))
            /\ ~\E j \in 1..Len(converted.v) : converted.v[j][1] = kApplicationJson
    THEN responseSchema(ex, h, entries, i, out, converted.v,
                        cleanValue(ex, Get(h, entries[i][2], kSchema), "output", converted.cx))
    ELSE responseDone(ex, h, entries, i, out, converted.v, converted.cx)
responseSchema(ex, h, entries, i, out, content, jsonSchema) ==
    IF jsonSchema.k = "throw" THEN jsonSchema
    ELSE responseDone(ex, h, entries, i, out,
                      Assign(content, kApplicationJson, jsonSchema.v), jsonSchema.cx)
responseDone(ex, h, entries, i, out, content, cx) ==
    convertResponsesFrom(ex, h, entries, i + 1,
        Assign(out, entries[i][1],
               [description |-> IF Get(h, entries[i][2], kDescription).t \in {"undefined", "null"}
                                THEN JString(<<>>)
                                ELSE Get(h, entries[i][2], kDescription),
                content |-> content]),
        cx)
convertResponses(ex, h, responses, cx) ==
    convertResponsesFrom(ex, h, entriesOf(h, responses), 1, <<>>, cx)

\* convertQueryToParameters(schema, docs).  The properties of the exported
\* schema are the exporter's: the parameters read from them are kept as
\* one element that names the exported schema and the docs
queryParameters(docs, raw) ==
    IF raw.k = "throw" THEN raw
    ELSE IF raw.v.t # "obj" THEN CRet(<<>>, raw.cx)
    ELSE CRet(<<[of |-> raw.v, docs |-> docs]>>, raw.cx)
convertQueryToParameters(ex, schema, docs, cx) ==
    queryParameters(docs, cleanValue(ex, schema, "input", cx))

NoRequestBody == [description |-> JUndefined, required |-> JUndefined, content |-> <<>>]

\* the request body made of the converted content map
contentBody(h, body, content) ==
    IF content.k = "throw" THEN content
    ELSE IF Len(content.v) = 0 THEN CRet(NoRequestBody, content.cx)
    ELSE CRet([description |-> Get(h, body, kDescription),
               required |-> Get(h, body, kRequired),
               content |-> content.v], content.cx)
\* the request body made of the converted body schema
schemaBody(schema) ==
    IF schema.k = "throw" THEN schema
    ELSE CRet([description |-> JUndefined, required |-> JBoolean(TRUE),
               content |-> <<<<kApplicationJson, schema.v>>>>], schema.cx)
\* if (def.body) { ... }
requestBody(ex, h, body, cx) ==
    IF ~JsTruthy(body) THEN CRet(NoRequestBody, cx)
    ELSE IF body.t = "ref" /\ In(h, body, kContent)
    THEN IF JsTruthy(Get(h, body, kContent)) /\ Len(entriesOf(h, Get(h, body, kContent))) > 0
         THEN contentBody(h, body,
                  convertContentFrom(ex, entriesOf(h, Get(h, body, kContent)), "input", 1, <<>>, cx))
         ELSE CRet(NoRequestBody, cx)
    ELSE schemaBody(cleanValue(ex, body, "input", cx))

\* const security = def.security ?? options.security;
\* if (security && security.length > 0) operation.security = security
operationSecurity(h, own, global) ==
    LET security == IF own.t \in {"undefined", "null"} THEN global ELSE own
    IN  IF JsTruthy(security) /\ Len(entriesOf(h, security)) > 0 THEN security
        ELSE JUndefined

\* the operation object of def
operationOf(h, options, def, path, responses, queryParams, body) ==
    [description |-> Get(h, def, kDescription),
     operationId |-> Get(h, def, kOperationId),
     responses |-> responses,
     summary |-> Get(h, def, kSummary),
     tags |-> Get(h, def, kTags),
     deprecated |-> Get(h, def, kDeprecated),
     security |-> operationSecurity(h, Get(h, def, kSecurity), options.security),
     parameters |-> [path |-> inferPathParamsFromPath(path), query |-> queryParams],
     requestBody |-> body]

\* the catch block of the loop over the endpoints
operationFailed(file, method, paths, thrown) ==
    [paths |-> paths,
     cx |-> [thrown.cx EXCEPT !.lg =
                Append(@, LogContext("error",
                          "Failed to build OpenAPI operation from endpoint definition",
                          thrown.msg, shortenFilePath(file), method))]]

\* the try block after the request body has been converted
withBody(h, options, file, method, def, path, paths, responses, queryParams, body) ==
    IF body.k = "throw" THEN operationFailed(file, method, paths, body)
    ELSE [paths |-> Assign(paths, path,
                      Assign(Lookup(paths, path, <<>>),
                             toLowerHttpMethod(Get(h, def, kMethod).v),
                             operationOf(h, options, def, path, responses, queryParams,
                                         body.v))),
          cx |-> body.cx]
\* the try block after the query has been converted
withQuery(ex, h, options, file, method, def, path, paths, responses, queryParams) ==
    IF queryParams.k = "throw" THEN operationFailed(file, method, paths, queryParams)
    ELSE withBody(h, options, file, method, def, path, paths, responses, queryParams.v,
                  requestBody(ex, h, Get(h, def, kBody), queryParams.cx))
\* the try block after the responses have been converted
withResponses(ex, h, options, file, method, def, path, paths, responses) ==
    IF responses.k = "throw" THEN operationFailed(file, method, paths, responses)
    ELSE withQuery(ex, h, options, file, method, def, path, paths, responses.v,
                   IF JsTruthy(Get(h, def, kQuery))
                   THEN convertQueryToParameters(ex, Get(h, def, kQuery),
                                                 Get(h, def, kQueryParams), responses.cx)
                   ELSE CRet(<<>>, responses.cx))
\* the try block once path is known: p is [path, lg]
withPath(ex, h, options, file, method, def, paths, cx, p) ==
    IF Len(options.basePath) > 0 /\ ~startsWith(p.path, options.basePath)
    THEN [paths |-> paths, cx |-> [cx EXCEPT !.lg = p.lg]]
    ELSE withResponses(ex, h, options, file, method, def, p.path,
                       IF \E i \in 1..Len(paths) : paths[i][1] = p.path THEN paths
                       ELSE Append(paths, <<p.path, <<>>>>),
                       convertResponses(ex, h, Get(h, def, kResponses),
                                        [cx EXCEPT !.lg = p.lg]))

\* the loop over Object.entries(module._openapi), from entry i on
RECURSIVE endpointsFrom(_, _, _, _, _, _, _, _)
RECURSIVE endpointsNext(_, _, _, _, _, _, _)
endpointsFrom(ex, h, options, file, entries, i, paths, cx) ==
    IF i > Len(entries) THEN [paths |-> paths, cx |-> cx]
    ELSE IF ~JsTruthy(entries[i][2])
    THEN endpointsFrom(ex, h, options, file, entries, i + 1, paths, cx)
    ELSE endpointsNext(ex, h, options, file, entries, i,
             withPath(ex, h, options, file, entries[i][1], entries[i][2], paths, cx,
                      IF Get(h, entries[i][2], kPath).t \in {"undefined", "null"}
                      THEN inferPathFromFile(file, cx.lg)
                      ELSE [path |-> Get(h, entries[i][2], kPath).v, lg |-> cx.lg]))
endpointsNext(ex, h, options, file, entries, i, done) ==
    endpointsFrom(ex, h, options, file, entries, i + 1, done.paths, done.cx)

\* the loop over Object.entries(modules), from entry i on; an entry is
\* [file, loads, returns]: the loader returns `returns`, or throws when
\* loads is false
RECURSIVE modulesFrom(_, _, _, _, _, _, _)
RECURSIVE moduleUnwrapped(_, _, _, _, _, _, _)
RECURSIVE moduleDone(_, _, _, _, _, _)
modulesFrom(ex, options, modules, i, h, paths, cx) ==
    IF i > Len(modules) THEN [k |-> "ret", msg |-> "", h |-> h, paths |-> paths, cx |-> cx]
    ELSE IF ~modules[i].loads
    THEN [k |-> "throw", msg |-> "loader", h |-> h, paths |-> paths, cx |-> cx]
    ELSE moduleUnwrapped(ex, options, modules, i, paths, cx,
                         unwrapModule(cx.st, h, modules[i].returns, 0))
moduleUnwrapped(ex, options, modules, i, paths, cx, module) ==
    IF module.h.full
    THEN [k |-> "ret", msg |-> "", h |-> module.h, paths |-> paths, cx |-> cx]
    ELSE IF ~JsTruthy(module.v) \/ ~JsTruthy(Get(module.h, module.v, kOpenapi))
    THEN modulesFrom(ex, options, modules, i + 1, module.h, paths, cx)
    ELSE moduleDone(ex, options, modules, i, module.h,
                    endpointsFrom(ex, module.h, options, modules[i].file,
                                  entriesOf(module.h, Get(module.h, module.v, kOpenapi)),
                                  1, paths, cx))
moduleDone(ex, options, modules, i, h, done) ==
    modulesFrom(ex, options, modules, i + 1, h, done.paths, done.cx)

NoOptions == [security |-> JUndefined, basePath |-> <<>>]
NoDocument == [openapi |-> "", info |-> [title |-> "", version |-> ""], paths |-> <<>>,
               security |-> JUndefined]
\* the spec object returned at the end
documentOf(options, run) ==
    IF run.k = "throw" THEN NoDocument
    ELSE [openapi |-> "3.1.0",
          info |-> [title |-> "SvelteKit API", version |-> "1.0.0"],
          paths |-> run.paths,
          security |-> IF JsTruthy(options.security) THEN options.security ELSE JUndefined]

createOpenApiSpec(ex, modules, options, h, cx) ==
    modulesFrom(ex, options, modules, 1, h, <<>>, cx)

(***************************************************************************)
(* The modules given to the sanitizer                                      *)
(***************************************************************************)
RawNames ==
    <<"doc", "secReq", "secArr", "tagsAB", "ctJson", "ctBad",
      "r200", "rSchema", "rContent", "rEmpty", "rExtra", "rBadContent",
      "respOk", "respTwo", "respEmpty", "respBadKey", "respEmptyDef",
      "respExtra", "respBadContent",
      "rBlank", "rProto", "rBadSchema", "respBlank", "respProtoDef", "respPrimDef",
      "respBadSchema", "respLong", "respAccessor", "respProto", "respFourDigits",
      "bodyContent", "bodyNoContent", "qpA", "qpZ", "qpPrimitive",
      "epOk", "epPostOk", "epPostEmptyResp", "epPostBadQuery", "epFull",
      "epUnionZ", "epUnionA", "epObjZ", "epObjA", "epWrapZ", "epWrapA",
      "epNoResp", "epExtraKey", "epBodySchema", "epNoQueryZ", "epBadBody",
      "epBadResp", "epBadParams", "epProto", "epAccessor",
      "tagsLong", "tagsBlank", "epLong", "epBlank",
      "secEmpty", "rNever", "respNever", "epSecEmpty", "epNeverResp", "epBodyNever",
      "apiOk", "apiSiblingResp", "apiSiblingQuery", "apiSiblingBody", "apiFull",
      "apiUnionZ", "apiUnionA", "apiObjZ", "apiObjA", "apiWrapZ", "apiWrapA",
      "apiSkip", "apiMany", "apiProto", "apiForbidden", "apiSymbol", "apiAccessor",
      "apiEmpty", "apiBadResp", "apiBadParams", "apiEpProto", "apiEpAccessor",
      "apiSecEmpty", "apiConvFail", "apiBodyNever", "apiLong", "apiBlank",
      "apiClash", "mLong", "mBlank", "mClash",
      "mOk", "mSiblingResp", "mSiblingQuery", "mSiblingBody", "mFull",
      "mUnionZ", "mUnionA", "mObjZ", "mObjA", "mWrapZ", "mWrapA",
      "mSkip", "mMany", "mProto", "mForbidden", "mSymbol", "mAccessor",
      "mEmpty", "mBadResp", "mBadParams", "mNoApi", "mArrayApi",
      "mEpProto", "mEpAccessor", "mSecEmpty", "mConvFail", "mBodyNever",
      "loaderOk", "loaderSibling", "loaderArg", "loaderLoader">>

Rw(name) == CHOOSE i \in 1..Len(RawNames) : RawNames[i] = name
RawRef(name) == JRef(Rw(name))
ObjTop == Len(RawNames) + MaxObjects

sA == <<"a">>
sOk == <<" ", "o", "k", " ">>
s200 == <<"2", "0", "0">>
s404 == <<"4", "0", "4">>
sJson == <<"a", "p", "p", "/", "j", "s", "o", "n">>
sTRACE == <<"T", "R", "A", "C", "E">>

\* a string of n characters
Long(n) == [i \in 1..n |-> "x"]
Plain(props) == JsObject("Object", props)
Endpoint(method, props) == Plain(<<<<kMethod, JString(method)>>>> \o props)
Module(api) == Plain(<<<<kOpenapi, RawRef(api)>>>>)
Responses == <<kResponses, RawRef("respOk")>>

RawObject(id) ==
    LET nm == RawNames[id] IN
    CASE nm = "doc" -> Plain(<<<<kDescription, JString(sOk)>>>>)
      [] nm = "secReq" -> Plain(<<<<<<"k", "e", "y">>, JNull>>>>)
      [] nm = "secArr" -> JsArray(<<RawRef("secReq")>>)
      [] nm = "tagsAB" -> JsArray(<<JString(sA), JNumber(1), JString(<<" ">>), JString(sOk)>>)
      [] nm = "ctJson" -> Plain(<<<<sJson, JSchema(Fx("str"))>>>>)
      [] nm = "ctBad" -> Plain(<<<<<<"j", "s", "o", "n">>, JSchema(Fx("str"))>>>>)
      [] nm = "r200" -> Plain(<<<<kDescription, JString(sOk)>>>>)
      [] nm = "rSchema" -> Plain(<<<<kSchema, JSchema(Fx("str"))>>>>)
      [] nm = "rContent" -> Plain(<<<<kContent, RawRef("ctJson")>>>>)
      [] nm = "rEmpty" -> Plain(<<>>)
      [] nm = "rExtra" -> Plain(<<<<kDescription, JString(sOk)>>, <<kTags, JNull>>>>)
      [] nm = "rBadContent" -> Plain(<<<<kContent, RawRef("ctBad")>>>>)
      [] nm = "respOk" -> Plain(<<<<s200, RawRef("r200")>>>>)
      [] nm = "respTwo" -> Plain(<<<<s200, RawRef("rContent")>>, <<s404, RawRef("rSchema")>>>>)
      [] nm = "respEmpty" -> Plain(<<>>)
      [] nm = "respBadKey" -> Plain(<<<<<<"2", "x", "x">>, RawRef("r200")>>>>)
      [] nm = "respEmptyDef" -> Plain(<<<<s200, RawRef("rEmpty")>>>>)
      [] nm = "respExtra" -> Plain(<<<<s200, RawRef("rExtra")>>>>)
      [] nm = "respBadContent" -> Plain(<<<<s200, RawRef("rBadContent")>>>>)
      [] nm = "rBlank" -> Plain(<<<<kDescription, JString(<<" ", " ">>)>>>>)
      [] nm = "rProto" -> JsObject("custom", <<<<kDescription, JString(sOk)>>>>)
      [] nm = "rBadSchema" -> Plain(<<<<kSchema, JString(sOk)>>>>)
      [] nm = "respBlank" -> Plain(<<<<s200, RawRef("rBlank")>>>>)
      [] nm = "respProtoDef" -> Plain(<<<<s200, RawRef("rProto")>>>>)
      [] nm = "respPrimDef" -> Plain(<<<<s200, JString(sOk)>>>>)
      [] nm = "respBadSchema" -> Plain(<<<<s200, RawRef("rBadSchema")>>>>)
      [] nm = "respLong" ->
            Plain([i \in 1..(MAX_RESPONSES_PER_ENDPOINT + 1) |->
                      <<<<"2", DigitSeq[(i \div 10) + 1], DigitSeq[(i % 10) + 1]>>, RawRef("r200")>>])
      [] nm = "respAccessor" -> [Plain(<<<<s200, RawRef("r200")>>>>) EXCEPT !.accessors = {s200}]
      [] nm = "respProto" -> JsObject("custom", <<<<s200, RawRef("r200")>>>>)
      [] nm = "respFourDigits" -> Plain(<<<<<<"2", "0", "0", "0">>, RawRef("r200")>>>>)
      [] nm = "bodyContent" ->
            Plain(<<<<kContent, RawRef("ctJson")>>, <<kDescription, JString(sOk)>>,
                    <<kRequired, JBoolean(TRUE)>>>>)
      [] nm = "bodyNoContent" -> Plain(<<<<kDescription, JString(sOk)>>>>)
      [] nm = "qpA" -> Plain(<<<<sA, RawRef("doc")>>>>)
      [] nm = "qpZ" -> Plain(<<<<<<"z", "z", "z">>, RawRef("doc")>>>>)
      [] nm = "qpPrimitive" -> Plain(<<<<sA, JString(sOk)>>>>)
      [] nm = "epOk" -> Endpoint(sGET, <<Responses>>)
      [] nm = "epPostOk" ->
            Endpoint(sPOST, <<<<kPath, JString(<<"/", "p">>)>>, Responses>>)
      [] nm = "epPostEmptyResp" -> Endpoint(sPOST, <<<<kResponses, RawRef("respEmpty")>>>>)
      [] nm = "epPostBadQuery" ->
            Endpoint(sPOST, <<<<kQuery, JSchema(Fx("str"))>>, Responses>>)
      [] nm = "epFull" ->
            Endpoint(sGET,
                <<<<kPath, JString(<<" ", "/", "f", " ">>)>>,
                  <<kSummary, JString(sOk)>>, <<kDescription, JString(sOk)>>,
                  <<kOperationId, JString(sOk)>>, <<kDeprecated, JBoolean(TRUE)>>,
                  <<kTags, RawRef("tagsAB")>>, <<kQuery, JSchema(Fx("qAB"))>>,
                  <<kQueryParams, RawRef("qpA")>>, <<kBody, RawRef("bodyContent")>>,
                  <<kResponses, RawRef("respTwo")>>, <<kSecurity, RawRef("secArr")>>>>)
      [] nm \in {"epUnionZ", "epUnionA", "epObjZ", "epObjA", "epWrapZ", "epWrapA"} ->
            Endpoint(sGET,
                <<<<kQuery, JSchema(Fx(CASE nm \in {"epUnionZ", "epUnionA"} -> "uSame"
                                         [] nm \in {"epObjZ", "epObjA"} -> "qAB"
                                         [] OTHER -> "qOptAB"))>>,
                  <<kQueryParams, RawRef(IF nm \in {"epUnionZ", "epObjZ", "epWrapZ"}
                                         THEN "qpZ" ELSE "qpA")>>,
                  Responses>>)
      [] nm = "epNoResp" -> Endpoint(sPUT, <<>>)
      [] nm = "epExtraKey" -> Endpoint(sPUT, <<Responses, <<sA, JBoolean(TRUE)>>>>)
      [] nm = "epBodySchema" -> Endpoint(sPATCH, <<<<kBody, JSchema(Fx("str"))>>, Responses>>)
      [] nm = "epNoQueryZ" -> Endpoint(sDELETE, <<<<kQueryParams, RawRef("qpZ")>>, Responses>>)
      [] nm = "epBadBody" -> Endpoint(sPOST, <<<<kBody, RawRef("bodyNoContent")>>, Responses>>)
      [] nm = "epBadResp" -> Endpoint(sGET, <<<<kResponses, RawRef("respBadKey")>>>>)
      [] nm = "epBadParams" ->
            Endpoint(sGET, <<<<kQueryParams, RawRef("qpPrimitive")>>, Responses>>)
      [] nm = "epProto" -> [Endpoint(sGET, <<Responses>>) EXCEPT !.proto = "custom"]
      [] nm = "epAccessor" ->
            [Endpoint(sGET, <<<<kSummary, JString(sOk)>>, Responses>>)
                EXCEPT !.accessors = {kSummary}]
      [] nm = "tagsLong" ->
            JsArray([i \in 1..(MAX_TAGS_PER_ENDPOINT + 2) |->
                        IF i = 1 THEN JString(<<" ">> \o Long(65))
                        ELSE IF i = 2 THEN JNull
                        ELSE JString(sA)])
      [] nm = "tagsBlank" -> JsArray(<<JString(<<" ">>), JNumber(1), JString(<<>>)>>)
      [] nm = "epLong" ->
            Endpoint(sGET,
                <<<<kPath, JString(<<"/", "a", " ", "b">>)>>,
                  <<kSummary, JString(<<" ">> \o Long(MAX_DOC_STRING_LENGTH + 1))>>,
                  <<kDescription, JString(Long(MAX_DOC_STRING_LENGTH))>>,
                  <<kOperationId, JString(Long(MAX_OPERATION_ID_LENGTH + 1) \o <<" ">>)>>,
                  <<kTags, RawRef("tagsLong")>>, Responses>>)
      [] nm = "epBlank" ->
            Endpoint(sGET,
                <<<<kPath, JString(<<"p">>)>>, <<kSummary, JString(<<" ", " ">>)>>,
                  <<kDescription, JNumber(1)>>, <<kOperationId, JString(<<" ">>)>>,
                  <<kTags, RawRef("tagsBlank")>>, Responses>>)
      [] nm = "secEmpty" -> JsArray(<<>>)
      [] nm = "rNever" -> Plain(<<<<kSchema, JSchema(Fx("never"))>>>>)
      [] nm = "respNever" -> Plain(<<<<s200, RawRef("rNever")>>>>)
      [] nm = "epSecEmpty" ->
            Endpoint(sGET, <<Responses, <<kSecurity, RawRef("secEmpty")>>>>)
      [] nm = "epNeverResp" -> Endpoint(sPOST, <<<<kResponses, RawRef("respNever")>>>>)
      [] nm = "epBodyNever" ->
            Endpoint(sPATCH, <<<<kBody, JSchema(Fx("never"))>>, Responses>>)
      [] nm = "apiOk" -> Plain(<<<<sGET, RawRef("epOk")>>>>)
      [] nm = "apiSiblingResp" ->
            Plain(<<<<sGET, RawRef("epOk")>>, <<sPOST, RawRef("epPostEmptyResp")>>>>)
      [] nm = "apiSiblingQuery" ->
            Plain(<<<<sPOST, RawRef("epPostBadQuery")>>, <<sGET, RawRef("epOk")>>>>)
      [] nm = "apiSiblingBody" ->
            Plain(<<<<sGET, RawRef("epOk")>>, <<sPOST, RawRef("epBadBody")>>>>)
      [] nm = "apiFull" -> Plain(<<<<sGET, RawRef("epFull")>>>>)
      [] nm = "apiUnionZ" -> Plain(<<<<sGET, RawRef("epUnionZ")>>>>)
      [] nm = "apiUnionA" -> Plain(<<<<sGET, RawRef("epUnionA")>>>>)
      [] nm = "apiObjZ" -> Plain(<<<<sGET, RawRef("epObjZ")>>>>)
      [] nm = "apiObjA" -> Plain(<<<<sGET, RawRef("epObjA")>>>>)
      [] nm = "apiWrapZ" -> Plain(<<<<sGET, RawRef("epWrapZ")>>>>)
      [] nm = "apiWrapA" -> Plain(<<<<sGET, RawRef("epWrapA")>>>>)
      [] nm = "apiSkip" ->
            Plain(<<<<sGET, RawRef("epOk")>>, <<sTRACE, RawRef("epOk")>>,
                    <<sPUT, RawRef("epNoResp")>>, <<sPATCH, JString(sOk)>>,
                    <<sDELETE, RawRef("secArr")>>>>)
      [] nm = "apiMany" ->
            Plain(<<<<sGET, RawRef("epOk")>>, <<sPOST, RawRef("epPostOk")>>,
                    <<sPATCH, RawRef("epBodySchema")>>, <<sDELETE, RawRef("epNoQueryZ")>>,
                    <<sPUT, RawRef("epExtraKey")>>>>)
      [] nm = "apiProto" -> JsObject("custom", <<<<sGET, RawRef("epOk")>>>>)
      [] nm = "apiForbidden" ->
            Plain(<<<<sGET, RawRef("epOk")>>,
                    <<<<"c", "o", "n", "s", "t", "r", "u", "c", "t", "o", "r">>, JNull>>>>)
      [] nm = "apiSymbol" -> [Plain(<<<<sGET, RawRef("epOk")>>>>) EXCEPT !.symbols = TRUE]
      [] nm = "apiAccessor" -> [Plain(<<<<sGET, RawRef("epOk")>>>>) EXCEPT !.accessors = {sGET}]
      [] nm = "apiEmpty" -> JsObject("null", <<>>)
      [] nm = "apiBadResp" -> Plain(<<<<sGET, RawRef("epBadResp")>>>>)
      [] nm = "apiBadParams" -> Plain(<<<<sGET, RawRef("epBadParams")>>>>)
      [] nm = "apiEpProto" -> Plain(<<<<sGET, RawRef("epProto")>>>>)
      [] nm = "apiEpAccessor" -> Plain(<<<<sGET, RawRef("epAccessor")>>>>)
      [] nm = "apiLong" -> Plain(<<<<sGET, RawRef("epLong")>>>>)
      [] nm = "apiBlank" -> Plain(<<<<sGET, RawRef("epBlank")>>>>)
      [] nm = "apiSecEmpty" -> Plain(<<<<sGET, RawRef("epSecEmpty")>>>>)
      [] nm = "apiConvFail" ->
            Plain(<<<<sGET, RawRef("epOk")>>, <<sPOST, RawRef("epNeverResp")>>>>)
      [] nm = "apiBodyNever" -> Plain(<<<<sPATCH, RawRef("epBodyNever")>>>>)
      [] nm = "apiClash" ->
            Plain(<<<<sGET, RawRef("epOk")>>, <<sPOST, RawRef("epSecEmpty")>>>>)
      [] nm = "mClash" -> Module("apiClash")
      [] nm = "mLong" -> Module("apiLong")
      [] nm = "mBlank" -> Module("apiBlank")
      [] nm = "mOk" -> Module("apiOk")
      [] nm = "mSiblingResp" -> Module("apiSiblingResp")
      [] nm = "mSiblingQuery" -> Module("apiSiblingQuery")
      [] nm = "mSiblingBody" -> Module("apiSiblingBody")
      [] nm = "mFull" -> Module("apiFull")
      [] nm = "mUnionZ" -> Module("apiUnionZ")
      [] nm = "mUnionA" -> Module("apiUnionA")
      [] nm = "mObjZ" -> Module("apiObjZ")
      [] nm = "mObjA" -> Module("apiObjA")
      [] nm = "mWrapZ" -> Module("apiWrapZ")
      [] nm = "mWrapA" -> Module("apiWrapA")
      [] nm = "mSkip" -> Module("apiSkip")
      [] nm = "mMany" -> Module("apiMany")
      [] nm = "mProto" -> Module("apiProto")
      [] nm = "mForbidden" -> Module("apiForbidden")
      [] nm = "mSymbol" -> Module("apiSymbol")
      [] nm = "mAccessor" -> Module("apiAccessor")
      [] nm = "mEmpty" -> Module("apiEmpty")
      [] nm = "mBadResp" -> Module("apiBadResp")
      [] nm = "mBadParams" -> Module("apiBadParams")
      [] nm = "mNoApi" -> Plain(<<>>)
      [] nm = "mArrayApi" -> Module("secArr")
      [] nm = "mSecEmpty" -> Module("apiSecEmpty")
      [] nm = "mConvFail" -> Module("apiConvFail")
      [] nm = "mBodyNever" -> Module("apiBodyNever")
      [] nm = "mEpProto" -> Module("apiEpProto")
      [] nm = "mEpAccessor" -> Module("apiEpAccessor")
      [] nm = "loaderOk" -> JsFunction(0, RawRef("mOk"))
      [] nm = "loaderSibling" -> JsFunction(0, RawRef("mSiblingResp"))
      [] nm = "loaderArg" -> JsFunction(1, RawRef("mOk"))
      [] nm = "loaderLoader" -> JsFunction(0, RawRef("loaderOk"))

(***************************************************************************)
(* The state machine of the normaliser                                     *)
(***************************************************************************)
State ==
    [cache |-> normalizedSchemaCache, heap |-> heap, nextId |-> nextId, full |-> FALSE,
     rewritten |-> {}]

Idle == [op |-> "none", root |-> Undef, mode |-> "", k |-> "", id |-> Undef,
         msg |-> "", json |-> NoJson, called |-> FALSE, err |-> "", outcome |-> "",
         doc |-> NoDocument, modules |-> <<>>, options |-> NoOptions,
         arg |-> JUndefined, label |-> "", rewritten |-> {}, again |-> [k |-> "", id |-> Undef, msg |-> ""]]

InitOver(top) ==
    /\ normalizedSchemaCache = EmptyCache(top)
    /\ schemaCache = [i \in 0..top |-> NoJson]
    /\ heap = [i \in 0..top |-> Node(i)]
    /\ nextId = DynBase + 1
    /\ log = <<>>
    /\ last = Idle
    /\ objs = [i \in 1..ObjTop |-> IF i <= Len(RawNames) THEN RawObject(i) ELSE FreeObject]
    /\ nextObj = Len(RawNames) + 1
    /\ ops = 0

\* a direct call normalizeSchema(r, { arrayDepth: 0, depth: 0, nodeCount: 0 })
Normalize(r) ==
    /\ ops < MaxOps
    /\ \E res \in {normalizeSchema(r, freshBudget, State)} :
          /\ ~res.st.full
          /\ normalizedSchemaCache' = res.st.cache
          /\ heap' = res.st.heap
          /\ nextId' = res.st.nextId
          /\ last' = [Idle EXCEPT !.op = "normalize", !.root = r, !.k = res.k,
                                  !.id = res.id, !.msg = res.msg,
                                  !.rewritten = res.st.rewritten]
          /\ ops' = ops + 1
          /\ UNCHANGED <<schemaCache, log, objs, nextObj>>

ToClean(r, typeMode, e) ==
    /\ ops < MaxOps
    /\ \E res \in {toCleanJsonSchema(r, typeMode, e, State, schemaCache, log)} :
          /\ ~res.st.full
          /\ normalizedSchemaCache' = res.st.cache
          /\ heap' = res.st.heap
          /\ nextId' = res.st.nextId
          /\ schemaCache' = res.sc
          /\ log' = res.log
          /\ last' = [Idle EXCEPT !.op = "toClean", !.root = r, !.mode = typeMode,
                                  !.k = res.k, !.id = res.prepared, !.msg = res.msg,
                                  !.json = res.json, !.called = res.called,
                                  !.err = res.err,
                                  !.outcome = IF res.called THEN e ELSE ""]
          /\ ops' = ops + 1
          /\ UNCHANGED <<objs, nextObj>>

NormRoots ==
    {Fx(nm) : nm \in {"str", "date", "never", "imp", "uns", "optS", "nulD",
                      "optNv", "optBare", "pipeS", "pipeV", "pipeD", "objSN",
                      "objSI", "objSS", "objD", "uniSN", "uniNv", "uniSU",
                      "uniSS", "uniEmpty", "arrS", "arrNv", "nullishNv",
                      "nullishA", "nullishAsync", "nullishS", "optAS", "objA",
                      "pipeA", "pipeAV", "optOfA", "objShallowFirst",
                      "objDeepFirst", "arrOptNv", "arrArrNv", "arrANv", "objNv",
                      "arrD", "arrA", "uniDS"}}
    \cup {Chain(20), Chain(MAX_SCHEMA_DEPTH), Chain(MAX_SCHEMA_DEPTH + 1),
          ArrChain(10), ArrChain(MAX_ARRAY_NESTING + 1), ArrChain(MAX_ARRAY_NESTING + 2),
          AsyncChain(3), AsyncChain(AsyncChainLen)}

\* a direct call normalizeAsync(s), depth taking its default 0
NormalizeAsync(s) ==
    /\ ops < MaxOps
    /\ \E res \in {normalizeAsync(s, 0, State)} :
          /\ ~res.st.full
          /\ heap' = res.st.heap
          /\ nextId' = res.st.nextId
          /\ last' = [Idle EXCEPT !.op = "normalizeAsync", !.root = s, !.k = "ret",
                                  !.id = res.id]
          /\ ops' = ops + 1
          /\ UNCHANGED <<normalizedSchemaCache, schemaCache, log, objs, nextObj>>

AsyncRoots ==
    {Fx(nm) : nm \in {"str", "optS", "optAS", "objA", "pipeA", "pipeAV", "pipeABare",
                      "pipeAUV", "pipeAA", "arrA", "uniA", "nulA", "nullishAsync",
                      "qAsync", "arrANv"}}
        \cup {AsyncChain(k) : k \in {2, 32, 33, 34, AsyncChainLen}}

InitAsync == InitOver(SmallTop)
NextAsync == \E s \in AsyncRoots : NormalizeAsync(s)
SpecAsync == InitAsync /\ [][NextAsync]_vars

\* normalizeSchema(r, fresh budget) and, when it returned a node, a second
\* call normalizeSchema on that node with a budget of its own
secondCall(first) ==
    IF first.k = "ret" /\ first.id # Undef /\ ~first.st.full
    THEN [first |-> first, second |-> normalizeSchema(first.id, freshBudget, first.st)]
    ELSE [first |-> first, second |-> first]

normalizeTwice(r, st) == secondCall(normalizeSchema(r, freshBudget, st))

NormalizeTwice(r) ==
    /\ ops < MaxOps
    /\ \E res \in {normalizeTwice(r, State)} :
          /\ ~res.second.st.full
          /\ normalizedSchemaCache' = res.second.st.cache
          /\ heap' = res.second.st.heap
          /\ nextId' = res.second.st.nextId
          /\ last' = [Idle EXCEPT !.op = "normalizeTwice", !.root = r, !.k = res.first.k,
                                  !.id = res.first.id, !.msg = res.first.msg,
                                  !.again = [k |-> res.second.k, id |-> res.second.id,
                                             msg |-> res.second.msg]]
          /\ ops' = ops + 1
          /\ UNCHANGED <<schemaCache, log, objs, nextObj>>

TwiceRoots ==
    {Fx(nm) : nm \in {"str", "date", "optS", "nulD", "pipeD", "objSN", "objD", "uniSN",
                      "arrD", "nullishNv", "objA", "optAS", "uniDS"}}
        \cup {Chain(3), Chain(30), AsyncChain(3), DateChain(3), DateChain(20),
              DateChain(DateChainLen - 2)}

InitTwice == InitOver(SmallTop)
NextTwice ==
    \/ \E r \in TwiceRoots : Normalize(r)
    \/ \E r \in TwiceRoots : NormalizeTwice(r)
SpecTwice == InitTwice /\ [][NextTwice]_vars

\* schema graphs with a reference cycle, and three without
CycleRoots ==
    {Fx(nm) : nm \in {"cycOpt", "cycNul", "cycArr", "cycObj", "cycUni", "cycObjArr",
                      "cycArrObj", "cycOptA", "cycNullish", "str", "optS", "arrS",
                      "objD", "uniSN", "optNv"}}

InitCycle == InitOver(SmallTop)
NextCycle == \E r \in CycleRoots : Normalize(r)
SpecCycle == InitCycle /\ [][NextCycle]_vars

InitNorm == InitOver(SmallTop)
NextNorm == \E r \in NormRoots : Normalize(r)
SpecNorm == InitNorm /\ [][NextNorm]_vars

\* a call sanitizeQuerySchema(r) on a query schema of the fixtures
UnwrapQuery(r) ==
    /\ ops < MaxOps
    /\ \E res \in {sanitizeQuerySchema(State, r)} :
          /\ last' = [Idle EXCEPT !.op = "unwrap", !.root = r, !.k = res.k,
                                  !.id = res.id, !.msg = res.msg]
          /\ ops' = ops + 1
          /\ UNCHANGED <<normalizedSchemaCache, schemaCache, heap, nextId, log, objs, nextObj>>

WrapFamilies == 0..2
\* the fixtures up to uniDS; those after it are schema graphs with reference
\* cycles and asynchronous pipes
QueryRoots ==
    (1..Fx("uniDS")) \cup {QWrap(p, k) : p \in WrapFamilies, k \in 1..MaxWrap}

InitQuery == InitOver(SmallTop)
NextQuery == \E r \in QueryRoots : UnwrapQuery(r)
SpecQuery == InitQuery /\ [][NextQuery]_vars

\* the heap of objects as the sanitizer sees it
Objects == [objs |-> objs, next |-> nextObj, full |-> FALSE]

\* the objects reachable from those of S through properties
refsOf(o) == {o.props[i][2].v : i \in {j \in 1..Len(o.props) : o.props[j][2].t = "ref"}}
RECURSIVE Reachable(_)
Reachable(S) ==
    LET more == S \cup UNION {refsOf(objs[o]) : o \in S}
    IN  IF more = S THEN S ELSE Reachable(more)

\* a call sanitizeOpenApiModule(m); the objects made by a call that throws
\* are garbage
SanitizeModule(m) ==
    /\ ops < MaxOps
    /\ \E res \in {sanitizeOpenApiModule(State, Objects, m)} :
          /\ ~res.h.full
          /\ objs' = IF res.k = "ret" THEN res.h.objs ELSE objs
          /\ nextObj' = IF res.k = "ret" THEN res.h.next ELSE nextObj
          /\ last' = [Idle EXCEPT !.op = "sanitize",
                                  !.root = IF m.t = "ref" THEN m.v ELSE Undef, !.k = res.k,
                                  !.id = IF res.v.t = "ref" THEN res.v.v ELSE Undef,
                                  !.msg = res.msg]
          /\ ops' = ops + 1
          /\ UNCHANGED <<normalizedSchemaCache, schemaCache, heap, nextId, log>>

\* a call unwrapModule(m) as createOpenApiSpec makes it on a loaded module
UnwrapModule(m) ==
    /\ ops < MaxOps
    /\ \E res \in {unwrapModule(State, Objects, m, 0)} :
          /\ ~res.h.full
          /\ objs' = res.h.objs
          /\ nextObj' = res.h.next
          /\ last' = [Idle EXCEPT !.op = "unwrapModule",
                                  !.root = IF m.t = "ref" THEN m.v ELSE Undef, !.k = res.k,
                                  !.id = IF res.v.t = "ref" THEN res.v.v ELSE Undef,
                                  !.msg = res.msg]
          /\ ops' = ops + 1
          /\ UNCHANGED <<normalizedSchemaCache, schemaCache, heap, nextId, log>>

\* a call sanitizeResponses(raw)
SanitizeResponses(raw) ==
    /\ ops < MaxOps
    /\ \E res \in {sanitizeResponses(State, Objects, raw)} :
          /\ ~res.h.full
          /\ objs' = IF res.k = "ret" THEN res.h.objs ELSE objs
          /\ nextObj' = IF res.k = "ret" THEN res.h.next ELSE nextObj
          /\ last' = [Idle EXCEPT !.op = "responses",
                                  !.root = IF raw.t = "ref" THEN raw.v ELSE Undef, !.k = res.k,
                                  !.id = IF res.v.t = "ref" THEN res.v.v ELSE Undef,
                                  !.msg = res.msg]
          /\ ops' = ops + 1
          /\ UNCHANGED <<normalizedSchemaCache, schemaCache, heap, nextId, log>>

\* a call createOpenApiSpec(modules, options), the exporter following ex
CreateOpenApiSpec(modules, options, ex) ==
    /\ ops < MaxOps
    /\ \E run \in {createOpenApiSpec(ex, modules, options, Objects,
                                      Cx(State, schemaCache, log))} :
          /\ ~run.h.full /\ ~run.cx.st.full
          /\ objs' = run.h.objs
          /\ nextObj' = run.h.next
          /\ normalizedSchemaCache' = run.cx.st.cache
          /\ heap' = run.cx.st.heap
          /\ nextId' = run.cx.st.nextId
          /\ schemaCache' = run.cx.sc
          /\ log' = run.cx.lg
          /\ last' = [Idle EXCEPT !.op = "createOpenApiSpec", !.k = run.k, !.msg = run.msg,
                                  !.doc = documentOf(options, run),
                                  !.modules = modules, !.options = options]
          /\ ops' = ops + 1

\* the caller assigns o[key] = "x" on an object o it reaches from the module
\* it was given; the assignment has no effect on a frozen object
CallerWrite(o, key) ==
    /\ ops < MaxOps
    /\ last.op \in {"sanitize", "unwrapModule", "write"}
    /\ last.id # Undef
    /\ o \in Reachable({last.id})
    /\ objs' = IF objs[o].frozen THEN objs
               ELSE [objs EXCEPT ![o].props = Assign(@, key, JString(<<"x">>))]
    /\ last' = [last EXCEPT !.op = "write", !.root = o,
                            !.k = IF objs[o].frozen THEN "throw" ELSE "ret"]
    /\ ops' = ops + 1
    /\ UNCHANGED <<normalizedSchemaCache, schemaCache, heap, nextId, log, nextObj>>

ModuleRoots ==
    {RawRef(RawNames[i]) : i \in {j \in 1..Len(RawNames) : j >= Rw("mOk")}}
    \cup {JUndefined, JNull, JString(sOk), RawRef("apiOk")}
WriteKeys == {kDescription, s200}
ResponseRoots ==
    {RawRef(nm) : nm \in {"respOk", "respTwo", "respEmpty", "respBadKey", "respEmptyDef",
                          "respExtra", "respBadContent", "respBlank", "respProtoDef",
                          "respPrimDef", "respBadSchema", "respLong", "respAccessor",
                          "respProto", "respFourDigits", "secArr", "r200"}}
    \cup {JUndefined, JNull, JString(s200)}

InitSan == InitOver(SmallTop)
NextSan ==
    \/ \E m \in ModuleRoots : SanitizeModule(m)
    \/ \E m \in ModuleRoots : UnwrapModule(m)
    \/ \E raw \in ResponseRoots : SanitizeResponses(raw)
    \/ \E o \in 1..ObjTop, key \in WriteKeys : CallerWrite(o, key)
SpecSan == InitSan /\ [][NextSan]_vars

\* a call assertSafePlainRecord(value, label)
AssertSafePlainRecord(value, label) ==
    /\ ops < MaxOps
    /\ last' = [Idle EXCEPT !.op = "assertSafePlainRecord", !.arg = value, !.label = label,
                            !.k = IF assertSafePlainRecord(Objects, value, label) = ""
                                  THEN "ret" ELSE "throw",
                            !.msg = assertSafePlainRecord(Objects, value, label)]
    /\ ops' = ops + 1
    /\ UNCHANGED <<normalizedSchemaCache, schemaCache, heap, nextId, log, objs, nextObj>>

RecordValues ==
    {JRef(i) : i \in 1..Len(RawNames)}
    \cup {JUndefined, JNull, JString(sOk), JString(<<>>), JNumber(0), JBoolean(FALSE),
          JSchema(StrN)}
RecordLabels == {"responses", "module._openapi"}
InitRecord == InitOver(SmallTop)
NextRecord ==
    \E value \in RecordValues, label \in RecordLabels : AssertSafePlainRecord(value, label)
SpecRecord == InitRecord /\ [][NextRecord]_vars

\* sanitizeOpenApiModule over modules whose endpoints carry texts, tags and
\* paths of every length
EndpointRoots ==
    {RawRef(nm) : nm \in {"mLong", "mBlank", "mClash", "mFull", "mOk", "mMany", "mSkip", "mSecEmpty",
                          "mConvFail", "mBodyNever", "mEpProto", "mEpAccessor",
                          "mSiblingResp"}}
InitEndpoint == InitOver(SmallTop)
NextEndpoint == \E m \in EndpointRoots : SanitizeModule(m)
SpecEndpoint == InitEndpoint /\ [][NextEndpoint]_vars

\* createOpenApiSpec over files of routes, each with what its loader returns
FileA ==
    <<"/", "s", "r", "c", "/", "r", "o", "u", "t", "e", "s", "/", "a",
      "/", "+", "s", "e", "r", "v", "e", "r", ".", "t", "s">>
FileId ==
    <<"/", "s", "r", "c", "/", "r", "o", "u", "t", "e", "s", "/", "u", "/", "[", "i", "d", "]",
      "/", "+", "s", "e", "r", "v", "e", "r", ".", "j", "s">>
FileOut == <<"l", "i", "b", "/", "x", ".", "t", "s">>
Route(file, name) == [file |-> file, loads |-> TRUE, returns |-> RawRef(name)]
DocModules ==
    {<<Route(FileA, nm)>> :
        nm \in {"mOk", "mFull", "mSiblingResp", "mSkip", "mMany", "mSecEmpty",
                "mConvFail", "mBodyNever", "mNoApi", "loaderOk"}}
    \cup {<<Route(FileId, "mOk")>>, <<Route(FileOut, "mOk")>>,
          <<[file |-> FileA, loads |-> FALSE, returns |-> JUndefined]>>,
          <<Route(FileA, "mSecEmpty"), Route(FileId, "mFull")>>,
          <<Route(FileA, "mSiblingResp"), Route(FileId, "mConvFail")>>,
          <<>>}
DocOptions ==
    {[security |-> sec, basePath |-> base] :
        sec \in {JUndefined, RawRef("secArr"), RawRef("secEmpty")},
        base \in {<<>>, <<"/", "a">>}}
ExportPolicies ==
    {[e |-> "object", hit |-> {}], [e |-> "throw", hit |-> {StrN}],
     [e |-> "throw", hit |-> 0..SmallTop], [e |-> "throwValue", hit |-> 0..SmallTop],
     [e |-> "true", hit |-> 0..SmallTop]}
InitDoc == InitOver(SmallTop)
NextDoc ==
    \E modules \in DocModules, options \in DocOptions, ex \in ExportPolicies :
        CreateOpenApiSpec(modules, options, ex)
SpecDoc == InitDoc /\ [][NextDoc]_vars

BigWidths == {BigWidth - 3, BigWidth - 2, BigWidth - 1, BigWidth}
BigRoots == {BigRoot(w) : w \in BigWidths}

InitBig == InitOver(BigTop)
NextBig ==
    \/ \E r \in BigRoots : Normalize(r)
    \/ \E r \in BigRoots, m \in TypeModes : ToClean(r, m, "object")
SpecBig == InitBig /\ [][NextBig]_vars

\* toCleanJsonSchema on the small schemas, with every outcome of the exporter
CleanRoots ==
    {Fx(nm) : nm \in {"str", "objD", "objSN", "never", "optNv", "uniNv", "arrNv",
                      "imp", "pipeD"}}

InitClean == InitOver(SmallTop)
NextClean == \E r \in CleanRoots, m \in TypeModes, e \in ExportOutcomes : ToClean(r, m, e)
SpecClean == InitClean /\ [][NextClean]_vars

(***************************************************************************)
(* Measures of a schema tree, used to state the properties                 *)
(***************************************************************************)
Max(S) == CHOOSE x \in S : \A y \in S : y <= x

\* the children of a node, in the order of its fields
Kids(n) ==
    (IF "wrapped" \in n.has THEN <<n.wrapped>> ELSE <<>>)
    \o (IF "inner" \in n.has THEN <<n.inner>> ELSE <<>>)
    \o (IF "value" \in n.has THEN <<n.value>> ELSE <<>>)
    \o (IF "item" \in n.has THEN <<n.item>> ELSE <<>>)
    \o (IF "entries" \in n.has THEN [i \in 1..Len(n.entries) |-> n.entries[i][2]] ELSE <<>>)
    \o (IF "options" \in n.has THEN n.options ELSE <<>>)

RECURSIVE TreeSize(_, _)
RECURSIVE SizeOfRange(_, _, _, _)
\* the number of nodes of the tree below id, id included
TreeSize(st, id) ==
    LET ks == Kids(N(st, id)) IN 1 + SizeOfRange(st, ks, 1, Len(ks))
SizeOfRange(st, ks, lo, hi) ==
    IF lo > hi THEN 0
    ELSE IF lo = hi THEN TreeSize(st, ks[lo])
    ELSE LET mid == (lo + hi) \div 2
         IN  SizeOfRange(st, ks, lo, mid) + SizeOfRange(st, ks, mid + 1, hi)

IsNever(n) == n.kind = "schema" /\ n.type = "never"
IsAsync(n) == n.kind = "schema" /\ n.async
IsDate(n) == n.kind = "schema" /\ n.type = "date"
IsPipe(n) == n.kind = "schema" /\ n.type = "pipe"
\* an object that poses as a schema node: wrong marker or a kind outside
\* the whitelist
IsImpostorNode(n) ==
    /\ n.kind \notin {"undefined", "false", "free"}
    /\ ~(n.kind = "schema" /\ n.type \in VALIBOT_SUPPORTED_TYPES)
\* a node that lacks the child or children its kind requires
IsMalformed(n) ==
    /\ n.kind = "schema"
    /\ \/ n.type \in {"optional", "nullable", "nullish"} /\ "wrapped" \notin n.has
       \/ n.type = "array" /\ "item" \notin n.has
       \/ n.type = "object" /\ "entries" \notin n.has
       \/ n.type = "union" /\ ("options" \notin n.has \/ Len(n.options) = 0)

NodeIs(what, n) ==
    CASE what = "neverOrAsync" -> IsNever(n) \/ IsAsync(n)
      [] what = "impostor" -> IsImpostorNode(n)
      [] what = "notCanonical" ->
            \/ IsNever(n) \/ IsAsync(n) \/ IsDate(n) \/ IsPipe(n)
            \/ IsImpostorNode(n) \/ IsMalformed(n) \/ n.kind # "schema"

\* A walk down the tree below a root, one level at a time: at holds the
\* nodes of the current level, each with the number of arrays that enclose
\* it; deepest is the depth of the level, arrays the greatest number of
\* arrays found around an array (-1 when there is no array), sorts the
\* sorts of node found.
Sorts == {"neverOrAsync", "impostor", "notCanonical"}

IsArray(n) == n.kind = "schema" /\ n.type = "array"

WalkSeen(st, at) ==
    [arrays |-> Max({0 - 1} \cup {p[2] : p \in {q \in at : IsArray(N(st, q[1]))}}),
     sorts |-> {what \in Sorts : \E p \in at : NodeIs(what, N(st, p[1]))}]

WalkStart(st, root) ==
    LET at == {<<root, 0>>}
        seen == WalkSeen(st, at)
    IN  [at |-> at, deepest |-> 0, arrays |-> seen.arrays, sorts |-> seen.sorts,
         done |-> FALSE]

WalkBelow(st, at) ==
    UNION {LET n == N(st, p[1])
               ks == Kids(n)
           IN  {<<ks[i], IF IsArray(n) THEN p[2] + 1 ELSE p[2]>> : i \in 1..Len(ks)}
           : p \in at}

WalkStep(st, w) ==
    LET below == WalkBelow(st, w.at)
        seen == WalkSeen(st, below)
    IN  IF below = {} THEN [w EXCEPT !.done = TRUE]
        ELSE [at |-> below, deepest |-> w.deepest + 1,
              arrays |-> Max({w.arrays, seen.arrays}),
              sorts |-> w.sorts \cup seen.sorts, done |-> FALSE]

RECURSIVE Walk(_, _, _)
\* at most 8^level levels of the walk w
Walk(st, w, level) ==
    CASE w.done -> w
      [] level = 0 -> WalkStep(st, w)
      [] OTHER ->
            LET w1 == Walk(st, w, level - 1)
                w2 == Walk(st, w1, level - 1)
                w3 == Walk(st, w2, level - 1)
                w4 == Walk(st, w3, level - 1)
                w5 == Walk(st, w4, level - 1)
                w6 == Walk(st, w5, level - 1)
                w7 == Walk(st, w6, level - 1)
            IN  CASE w1.done -> w1
                  [] w2.done -> w2
                  [] w3.done -> w3
                  [] w4.done -> w4
                  [] w5.done -> w5
                  [] w6.done -> w6
                  [] w7.done -> w7
                  [] OTHER -> Walk(st, w7, level - 1)

TreeFacts(st, root) == Walk(st, WalkStart(st, root), WalkLevels)

\* the greatest nesting depth of a node of the tree below id, id being at
\* depth 0
Deepest(st, id) == TreeFacts(st, id).deepest

\* the greatest number of arrays that enclose an array of the tree below id
ArrayNesting(st, id) == TreeFacts(st, id).arrays

BeyondLimits(st, id) ==
    \/ Deepest(st, id) > MAX_SCHEMA_DEPTH
    \/ ArrayNesting(st, id) > MAX_ARRAY_NESTING

\* some node of the tree below id is of the given sort
TreeHas(st, id, what) == what \in TreeFacts(st, id).sorts

Called == last.op # "none"
Returned == Called /\ last.k = "ret"
Threw == Called /\ last.k = "throw"

(***************************************************************************)
(* C1: in one top-level conversion a schema tree of more than 10,000 nodes *)
(* fails with the 'Schema node limit exceeded' error, wherever its nodes   *)
(* sit.  Stated for the first conversion of a run, when both caches are    *)
(* still empty and every node of the tree is visited.                      *)
(***************************************************************************)
C1_NodeLimitEnforced ==
    (ops = 1 /\ last.op = "toClean" /\ TreeSize(State, last.root) > MAX_SCHEMA_NODES)
        => (last.k = "throw" /\ last.msg = "Schema node limit exceeded")

(***************************************************************************)
(* C4: a tree that has a node at depth over 32, or an array inside more    *)
(* than 16 arrays, fails whatever was normalised before and whatever the   *)
(* order of the fields; it is never accepted.                              *)
(***************************************************************************)
C4_LimitsIndependentOfCache ==
    (last.op = "normalize" /\ BeyondLimits(State, last.root)) => last.k = "throw"

(***************************************************************************)
(* C5 as stated: for a node whose tree has no never node and no            *)
(* asynchronous variant, normalizeSchema returns that very node.           *)
(***************************************************************************)
C5_NoNeverNoAsyncReturnsSame ==
    (last.op = "normalize" /\ last.k = "ret"
        /\ isValibotSchema(State, last.root)
        /\ ~TreeHas(State, last.root, "neverOrAsync"))
        => last.id = last.root

(***************************************************************************)
(* C5 amended: for a node whose tree is made of well-formed whitelisted    *)
(* nodes and has no never, date or pipe node and no asynchronous variant,  *)
(* normalizeSchema, when it returns, returns that very node.               *)
(***************************************************************************)
C5_CanonicalReturnsSame ==
    (last.op = "normalize" /\ last.k = "ret"
        /\ ~TreeHas(State, last.root, "notCanonical"))
        => last.id = last.root

C5_Witness ==
    /\ ops = MaxOps
    /\ last.op = "normalize" /\ last.k = "ret"
    /\ last.root = Fx("objSS") /\ last.id = last.root
    /\ ~TreeHas(State, last.root, "notCanonical")

(***************************************************************************)
(* C6: a node that normalizeSchema returns has, in its whole tree, no      *)
(* asynchronous node and no never node.                                    *)
(***************************************************************************)
C6_ResultHasNoNeverNoAsync ==
    (last.op = "normalize" /\ last.k = "ret" /\ last.id # Undef)
        => ~TreeHas(State, last.id, "neverOrAsync")

(***************************************************************************)
(* C7: normalizeSchema throws when the value it is given, or a field of    *)
(* an object or option of a union below it, is not a recognised schema     *)
(* node.                                                                   *)
(***************************************************************************)
C7_ImpostorRejected ==
    (last.op = "normalize" /\ TreeHas(State, last.root, "impostor"))
        => last.k = "throw"

(***************************************************************************)
(* Measures of a query schema                                              *)
(***************************************************************************)
IsWrapper(n) ==
    /\ n.kind = "schema"
    /\ \/ n.type \in {"optional", "nullable"} /\ "wrapped" \in n.has
       \/ n.type = "pipe" /\ Truthy(queryPipeInner(n))

WrapperChild(n) == IF n.type = "pipe" THEN queryPipeInner(n) ELSE n.wrapped

RECURSIVE Layers(_, _)
\* the number of optional, nullable and pipe layers above the base of id
Layers(st, id) ==
    IF IsWrapper(N(st, id)) THEN 1 + Layers(st, WrapperChild(N(st, id))) ELSE 0

RECURSIVE BaseOf(_, _)
\* the node below all the optional, nullable and pipe layers of id
BaseOf(st, id) ==
    IF IsWrapper(N(st, id)) THEN BaseOf(st, WrapperChild(N(st, id))) ELSE id

IsObjectNode(st, id) ==
    isValibotSchema(st, id) /\ N(st, id).type = "object" /\ "entries" \in N(st, id).has

IsUnionNode(st, id) ==
    isValibotSchema(st, id) /\ N(st, id).type = "union" /\ "options" \in N(st, id).has

\* the option unwraps to an object node, as the loop over the options calls it
OptionIsObject(st, opt) ==
    LET r == unwrapObjectLikeQuerySchema(st, opt, 1)
    IN  r.k = "ret" /\ IsObjectNode(st, r.id)

FieldNames(st, opt) ==
    LET n == N(st, BaseOf(st, opt)) IN {n.entries[i][1] : i \in 1..Len(n.entries)}

UnionOfObjects(st, id) ==
    /\ IsUnionNode(st, id)
    /\ Len(N(st, id).options) > 0
    /\ \A i \in 1..Len(N(st, id).options) : OptionIsObject(st, N(st, id).options[i])

SameFieldNames(st, id) ==
    \A i \in 1..Len(N(st, id).options) :
        FieldNames(st, N(st, id).options[i]) = FieldNames(st, N(st, id).options[1])

(***************************************************************************)
(* C9: for a union query schema whose options all unwrap to objects,       *)
(* unwrapObjectLikeQuerySchema fails with the same-fields error when some  *)
(* option's set of field names differs from the first option's, and        *)
(* otherwise returns the union node itself.                                *)
(***************************************************************************)
C9_UnionSameFields ==
    (last.op = "unwrap" /\ UnionOfObjects(State, last.root)) =>
        IF SameFieldNames(State, last.root)
        THEN last.k = "ret" /\ last.id = last.root
        ELSE /\ last.k = "throw"
             /\ last.msg = "union query schema options must expose the same object fields"

C9_Witness ==
    /\ last.op = "unwrap" /\ UnionOfObjects(State, last.root)
    /\ Len(N(State, last.root).options) > 2
    /\ SameFieldNames(State, last.root)
    /\ \E i \in 1..Len(N(State, last.root).options) :
          Layers(State, N(State, last.root).options[i]) > 0
    /\ last.k = "ret" /\ last.id = last.root

GivenModule ==
    /\ last.op \in {"sanitize", "unwrapModule"}
    /\ last.root \in 1..Len(RawNames)
    /\ objs[last.root].cls = "object"
    /\ assertSafePlainRecord(Objects, Get(Objects, JRef(last.root), kOpenapi), "") = ""

RawApi == Get(Objects, JRef(last.root), kOpenapi)
CleanApi == Get(Objects, JRef(last.id), kOpenapi)

\* the method keys of the given module whose endpoint is valid on its own
ValidAlone ==
    {e[1] : e \in {entriesOf(Objects, RawApi)[i] : i \in 1..Len(entriesOf(Objects, RawApi))}}
    \cap {key \in VALID_METHODS :
            /\ isValidEndpointDef(Objects, Get(Objects, RawApi, key))
            /\ sanitizeEndpointDef(State, Objects, Get(Objects, RawApi, key)).k = "ret"}

\* the method keys of the given module whose endpoint fails field sanitization
FailsAlone ==
    {key \in VALID_METHODS :
        /\ isValidEndpointDef(Objects, Get(Objects, RawApi, key))
        /\ sanitizeEndpointDef(State, Objects, Get(Objects, RawApi, key)).k = "throw"}

\* the field names a query schema exposes: those of the object below its
\* wrappers, for a union those of its first option
QueryFieldNames(st, id) ==
    IF IsUnionNode(st, BaseOf(st, id))
    THEN FieldNames(st, N(st, BaseOf(st, id)).options[1])
    ELSE FieldNames(st, id)

(***************************************************************************)
(* C2: when one endpoint of a module fails field sanitization, the         *)
(* endpoints of that module that are valid on their own are still          *)
(* processed and are in the result of sanitizeOpenApiModule and of         *)
(* unwrapModule.                                                           *)
(***************************************************************************)
C2_ValidSiblingsKept ==
    (GivenModule /\ FailsAlone # {}) =>
        \A key \in ValidAlone :
            last.k = "ret" /\ last.id # Undef /\ In(Objects, CleanApi, key)

(***************************************************************************)
(* C3: every object and array reachable from the value returned by         *)
(* sanitizeOpenApiModule is frozen, so that no write to any of them        *)
(* succeeds.                                                               *)
(***************************************************************************)
C3_ResultDeepFrozen ==
    /\ (last.op = "sanitize" /\ last.k = "ret") =>
          \A o \in Reachable({last.id}) : objs[o].frozen
    /\ last.op = "write" => last.k = "throw"

(***************************************************************************)
(* C8: no sanitized endpoint carries a queryParams key that is not a field *)
(* name of the endpoint's query schema, whether the schema is an object,   *)
(* an object under wrappers or a union of objects.                         *)
(***************************************************************************)
C8_QueryParamsMatchQuery ==
    (last.op = "sanitize" /\ last.k = "ret" /\ GivenModule) =>
        \A key \in VALID_METHODS :
            LET def == Get(Objects, RawApi, key)
                safe == Get(Objects, CleanApi, key)
                query == Get(Objects, def, kQuery)
                params == entriesOf(Objects, Get(Objects, safe, kQueryParams))
            IN  (safe.t = "ref" /\ query.t = "node" /\ In(Objects, safe, kQueryParams)) =>
                    \A i \in 1..Len(params) :
                        Join(params[i][1]) \in QueryFieldNames(State, query.v)

(***************************************************************************)
(* C11: a query schema that is an object node under one wrapper of kind    *)
(* optional, nullable, pipe, nullish, brand, fallback or default is        *)
(* accepted by sanitizeQuerySchema.                                        *)
(***************************************************************************)
ObjectLikeWrappers ==
    {"optional", "nullable", "pipe", "nullish", "brand", "fallback", "default"}

\* a whitelisted wrapper node of one of these kinds directly around an object node
WrapsObject(st, id) ==
    /\ isValibotSchema(st, id)
    /\ N(st, id).type \in ObjectLikeWrappers
    /\ \/ "wrapped" \in N(st, id).has /\ IsObjectNode(st, N(st, id).wrapped)
       \/ N(st, id).type = "pipe" /\ IsObjectNode(st, queryPipeInner(N(st, id)))

C11_WrappedObjectAccepted ==
    (last.op = "unwrap" /\ WrapsObject(State, last.root)) => last.k = "ret"

(***************************************************************************)
(* C12: an array node whose item normalises to absent (never, a wrapper    *)
(* around never, an array of such) is itself normalised to absent.         *)
(***************************************************************************)
\* normalizeSchema(id, budget) returns undefined in state st
NormalizesToAbsent(st, id, budget) ==
    LET r == normalizeSchema(id, budget, st)
    IN  ~r.st.full /\ r.k = "ret" /\ r.id = Undef

\* the root of the last call is an array whose item, normalised as the
\* array branch normalises it, is absent
ArrayOfAbsent(st, id) ==
    /\ IsArray(N(st, id)) /\ "item" \in N(st, id).has
    /\ NormalizesToAbsent(st, N(st, id).item, itemBudget(counted(freshBudget)))

C12_ArrayOfAbsentIsAbsent ==
    (last.op = "normalize" /\ ArrayOfAbsent(State, last.root))
        => (last.k = "ret" /\ last.id = Undef)

C12_Witness ==
    /\ last.op = "normalize" /\ last.root = Fx("arrOptNv")
    /\ ArrayOfAbsent(State, last.root)
    /\ last.k = "ret" /\ last.id = Undef
    /\ ops = MaxOps

(***************************************************************************)
(* C13: for an object node that has a never field, normalizeSchema, when   *)
(* it does not throw, returns an object node whose fields are the input's  *)
(* fields without those that normalise to absent, in the original order,   *)
(* each with its normalised child; it is not absent even when every field  *)
(* is dropped.                                                             *)
(***************************************************************************)
HasNeverField(st, id) ==
    /\ isValibotSchema(st, id)
    /\ N(st, id).type = "object" /\ "entries" \in N(st, id).has
    /\ \E i \in 1..Len(N(st, id).entries) : IsNever(N(st, N(st, id).entries[i][2]))

\* the fields of id whose value does not normalise to absent
KeptFields(st, id) ==
    LET Stays(e) == ~NormalizesToAbsent(st, e[2], childBudget(counted(freshBudget)))
    IN  SelectSeq(N(st, id).entries, Stays)

\* got is what value normalises to: the very node normalizeSchema answers
\* with, or an equal node where each call builds a new one
IsNormalizedChild(st, value, got) ==
    LET r == normalizeSchema(value, childBudget(counted(freshBudget)), st)
    IN  r.k = "ret" /\ (r.id = got \/ N(r.st, r.id) = N(st, got))

C13_NeverFieldsDropped ==
    (last.op = "normalize" /\ HasNeverField(State, last.root) /\ last.k # "throw") =>
        /\ last.id # Undef
        /\ N(State, last.id).kind = "schema" /\ N(State, last.id).type = "object"
        /\ LET kept == KeptFields(State, last.root)
               got == N(State, last.id).entries
           IN  /\ Len(got) = Len(kept)
               /\ \A j \in 1..Len(kept) :
                     /\ got[j][1] = kept[j][1]
                     /\ IsNormalizedChild(State, kept[j][2], got[j][2])

C13_Witness ==
    /\ last.op = "normalize" /\ last.root = Fx("objSN") /\ last.k = "ret"
    /\ HasNeverField(State, last.root)
    /\ last.id # last.root
    /\ objectKeys(N(State, last.id)) = <<"a", "c">>
    /\ ops = MaxOps

(***************************************************************************)
(* C14: a date leaf node is normalised to a plain string leaf node, and a  *)
(* container (object, array, union) or an optional or nullable wrapper     *)
(* that holds a date child is returned, when the call does not throw, as a *)
(* clone that holds that string node in place of the date node.            *)
(***************************************************************************)
HoldsDate(st, id) ==
    /\ isValibotSchema(st, id)
    /\ N(st, id).type \in {"object", "array", "union", "optional", "nullable"}
    /\ \E i \in 1..Len(Kids(N(st, id))) : IsDate(N(st, Kids(N(st, id))[i]))

\* the string node that the date node d is normalised to
StringOf(st, d) == normalizeSchema(d, childBudget(counted(freshBudget)), st).id

C15_AbsentRootFails ==
    (last.op = "toClean" /\ NormalizesToAbsent(State, last.root, freshBudget)) =>
        /\ last.k = "throw"
        /\ last.msg = "Non-convertible schema encountered"
        /\ last.json = NoJson
        /\ ~last.called

C15_Witness ==
    /\ last.op = "toClean" /\ last.root = Fx("uniNv")
    /\ NormalizesToAbsent(State, last.root, freshBudget)
    /\ last.k = "throw" /\ last.msg = "Non-convertible schema encountered"
    /\ ~last.called
    /\ ops = MaxOps

(***************************************************************************)
(* C16: sanitizeResponses returns only for a safe plain record of 1 to 32  *)
(* entries whose keys are three digits and whose values are safe plain     *)
(* objects with no key other than description, schema, content and with    *)
(* at least one of the three defined; in every other case it throws and    *)
(* returns nothing.                                                        *)
(***************************************************************************)
\* the value given to the last call
GivenValue == IF last.root = Undef THEN JUndefined ELSE JRef(last.root)

IsSafePlainRecord(x) == x.t = "ref" /\ assertSafePlainRecord(Objects, x, "") = ""

IsThreeDigits(key) == Len(key) = 3 /\ \A i \in 1..3 : key[i] \in Digits

ResponseShape(def) ==
    /\ IsSafePlainRecord(def)
    /\ \A i \in 1..Len(entriesOf(Objects, def)) :
          entriesOf(Objects, def)[i][1] \in {kDescription, kSchema, kContent}
    /\ \E key \in {kDescription, kSchema, kContent} : Get(Objects, def, key).t # "undefined"

WellFormedResponses(raw) ==
    /\ IsSafePlainRecord(raw)
    /\ Len(entriesOf(Objects, raw)) \in 1..32
    /\ \A i \in 1..Len(entriesOf(Objects, raw)) :
          /\ IsThreeDigits(entriesOf(Objects, raw)[i][1])
          /\ ResponseShape(entriesOf(Objects, raw)[i][2])

C16_ResponsesWellFormedOrFail ==
    last.op = "responses" =>
        IF WellFormedResponses(GivenValue)
        THEN last.k \in {"ret", "throw"}
        ELSE last.k = "throw" /\ last.id = Undef

C16_Witness ==
    /\ last.op = "responses" /\ last.root = Rw("respTwo")
    /\ WellFormedResponses(GivenValue)
    /\ last.k = "ret" /\ last.id # Undef
    /\ Len(objs[last.id].props) = 2
    /\ ops = MaxOps

(***************************************************************************)
(* C17: sanitizeOpenApiModule keeps an entry of _openapi only when its key *)
(* is a valid method and its value is a plain object (default or no        *)
(* prototype, no accessors, no forbidden keys) whose method is valid, with *)
(* whitelisted keys only and a responses field; entries failing this are   *)
(* dropped without an error, and at most 32 entries are kept.              *)
(***************************************************************************)
WhitelistedKeys ==
    {kBody, kDeprecated, kDescription, kMethod, kOperationId, kPath,
     kQuery, kQueryParams, kResponses, kSecurity, kSummary, kTags}

PassesEntryCheck(key, def) ==
    /\ key \in VALID_METHODS
    /\ IsSafePlainRecord(def)
    /\ Get(Objects, def, kMethod).t = "string"
    /\ Get(Objects, def, kMethod).v \in VALID_METHODS
    /\ \A i \in 1..Len(entriesOf(Objects, def)) :
          entriesOf(Objects, def)[i][1] \in WhitelistedKeys
    /\ Get(Objects, def, kResponses).t # "undefined"

C17_OnlyCheckedEntriesKept ==
    (last.op = "sanitize" /\ GivenModule) =>
        LET given == entriesOf(Objects, RawApi)
        IN  /\ last.k = "ret" =>
                  /\ Len(entriesOf(Objects, CleanApi)) <= MAX_ENDPOINTS_PER_MODULE
                  /\ \A i \in 1..Len(entriesOf(Objects, CleanApi)) :
                        PassesEntryCheck(entriesOf(Objects, CleanApi)[i][1],
                                         Get(Objects, RawApi, entriesOf(Objects, CleanApi)[i][1]))
            /\ (\A i \in 1..Len(given) : ~PassesEntryCheck(given[i][1], given[i][2])) =>
                  last.k = "ret" /\ entriesOf(Objects, CleanApi) = <<>>

(***************************************************************************)
(* C19: when toJsonSchema throws inside toCleanJsonSchema, logger.error is *)
(* called with the message of the error, the same error is thrown again,   *)
(* nothing is written to the export cache and no schema is returned.       *)
(***************************************************************************)
ExporterThrew == last.op = "toClean" /\ last.called /\ last.outcome \in {"throw", "throwValue"}

C19_ExportFailureLoggedAndRethrown ==
    [][ExporterThrew' =>
          /\ last'.k = "throw" /\ last'.json = NoJson
          /\ schemaCache' = schemaCache
          /\ ~JsonTruthy(schemaCache'[last'.id])
          /\ Len(log') = Len(log) + 1
          /\ SubSeq(log', 1, Len(log)) = log
          /\ log'[Len(log')].level = "error"
          /\ last'.outcome = "throw" =>
                /\ log'[Len(log')].detail = ExporterMessage
                /\ last'.msg = ExporterMessage
                /\ last'.err = "exporter"]_vars

C19_Witness ==
    /\ ExporterThrew /\ last.outcome = "throw" /\ last.root = Fx("objD")
    /\ last.k = "throw" /\ last.err = "exporter"
    /\ Len(log) = 1 /\ log[1].detail = ExporterMessage
    /\ schemaCache[last.id] = NoJson
    /\ ops = MaxOps

(***************************************************************************)
(* C20: an endpoint whose definition sets security to an empty array       *)
(* overrides the global options.security: its operation in the document    *)
(* carries its own empty security requirement, so that the security of the *)
(* document does not apply to it.                                          *)
(***************************************************************************)
DocumentReturned == last.op = "createOpenApiSpec" /\ last.k = "ret"

\* the endpoint definitions given in the module that file i loads
GivenEndpoints(i) == entriesOf(Objects, Get(Objects, last.modules[i].returns, kOpenapi))

\* the path under which the document lists the endpoint def of file i
PathOfEndpoint(i, def) ==
    IF Get(Objects, def, kPath).t = "string" THEN trim(Get(Objects, def, kPath).v)
    ELSE inferPathFromFile(last.modules[i].file, <<>>).path

\* the operations the document has for the endpoint def of file i
OperationsOf(i, def) ==
    {item[2] : item \in
        {it \in Range(Lookup(last.doc.paths, PathOfEndpoint(i, def), <<>>)) :
            it[1] = toLowerHttpMethod(Get(Objects, def, kMethod).v)}}

IsEmptyArray(x) == x.t = "ref" /\ objs[x.v].cls = "array" /\ Len(objs[x.v].props) = 0

C20_EmptySecurityOverridesGlobal ==
    (DocumentReturned /\ JsTruthy(last.options.security)
        /\ ~IsEmptyArray(last.options.security)) =>
        \A i \in 1..Len(last.modules) :
            \A e \in Range(GivenEndpoints(i)) :
                (e[2].t = "ref" /\ IsEmptyArray(Get(Objects, e[2], kSecurity))) =>
                    \A operation \in OperationsOf(i, e[2]) :
                        IsEmptyArray(operation.security)

(***************************************************************************)
(* C18: in createOpenApiSpec, for every endpoint definition that fails     *)
(* sanitization or whose schema conversion fails, the run still returns a  *)
(* document, the endpoint has no operation in it, and a diagnostic         *)
(* (logger.error or logger.warn) is emitted for it.                        *)
(***************************************************************************)
\* the objects as given, with room for one sanitization
GivenObjects == [objs |-> objs, next |-> Len(RawNames) + 1, full |-> FALSE]

\* def fails sanitization
Malformed(def) ==
    \/ ~isValidEndpointDef(GivenObjects, def)
    \/ sanitizeEndpointDef(State, GivenObjects, def).k = "throw"

\* the schemas of a response map or of a body
SchemasIn(x) ==
    IF x.t = "node" THEN {x.v}
    ELSE {Get(Objects, e[2], kSchema).v :
             e \in {r \in Range(entriesOf(Objects, x)) :
                        Get(Objects, r[2], kSchema).t = "node"}}

\* a schema of def cannot be converted, whatever the exporter does
ConversionFails(def) ==
    \E schema \in SchemasIn(Get(Objects, def, kResponses))
                  \cup SchemasIn(Get(Objects, def, kBody)) :
        NormalizesToAbsent(State, schema, freshBudget)

\* the endpoint is left out because of options.basePath
OutsideBasePath(i, def) ==
    /\ Len(last.options.basePath) > 0
    /\ ~startsWith(PathOfEndpoint(i, def), last.options.basePath)

\* a call of logger.error or logger.warn about the endpoint under key of file i
DiagnosticFor(i, key) ==
    \E n \in 1..Len(log) :
        /\ log[n].level \in {"error", "warn"}
        /\ log[n].file = shortenFilePath(last.modules[i].file)
        /\ log[n].method = key

AllLoaded == \A i \in 1..Len(last.modules) : last.modules[i].loads

C18_FailedEndpointsSkippedWithDiagnostic ==
    (last.op = "createOpenApiSpec" /\ AllLoaded) =>
        /\ last.k = "ret"
        /\ \A i \in 1..Len(last.modules) :
              \A e \in Range(GivenEndpoints(i)) :
                  (/\ e[1] \in VALID_METHODS
                   /\ \/ Malformed(e[2])
                      \/ ConversionFails(e[2]) /\ ~OutsideBasePath(i, e[2])) =>
                      /\ OperationsOf(i, e[2]) = {}
                      /\ DiagnosticFor(i, e[1])

(***************************************************************************)
(* C21: in every endpoint record sanitizeEndpointDef returns, summary and  *)
(* description are non-empty and at most 512 characters, operationId is    *)
(* non-empty and at most 256 characters, tags holds 1 to 16 strings each   *)
(* non-empty and at most 64 characters, and path starts with '/' and has   *)
(* no whitespace (each when present).                                      *)
(***************************************************************************)
\* the endpoint records of the module the last call returned
SanitizedEndpoints ==
    IF last.op = "sanitize" /\ last.k = "ret" /\ last.id # Undef
    THEN {e[2] : e \in Range(entriesOf(Objects, CleanApi))}
    ELSE {}

TextWithin(x, n) == x.t = "string" /\ Len(x.v) \in 1..n

C21_EndpointFieldsBounded ==
    \A safe \in SanitizedEndpoints :
        /\ In(Objects, safe, kSummary) => TextWithin(Get(Objects, safe, kSummary), 512)
        /\ In(Objects, safe, kDescription) =>
              TextWithin(Get(Objects, safe, kDescription), 512)
        /\ In(Objects, safe, kOperationId) =>
              TextWithin(Get(Objects, safe, kOperationId), 256)
        /\ In(Objects, safe, kTags) =>
              /\ isArray(Objects, Get(Objects, safe, kTags))
              /\ Len(entriesOf(Objects, Get(Objects, safe, kTags))) \in 1..16
              /\ \A tag \in Range(entriesOf(Objects, Get(Objects, safe, kTags))) :
                    TextWithin(tag[2], 64)
        /\ In(Objects, safe, kPath) =>
              /\ TextWithin(Get(Objects, safe, kPath), Len(Get(Objects, safe, kPath).v))
              /\ Get(Objects, safe, kPath).v[1] = "/"
              /\ \A c \in Range(Get(Objects, safe, kPath).v) : c \notin WhiteSpace

C21_Witness ==
    /\ last.op = "sanitize" /\ last.k = "ret" /\ last.root = Rw("mLong")
    /\ \E safe \in SanitizedEndpoints :
          /\ Len(Get(Objects, safe, kSummary).v) = 512
          /\ Len(Get(Objects, safe, kDescription).v) = 512
          /\ Len(Get(Objects, safe, kOperationId).v) = 256
          /\ Len(entriesOf(Objects, Get(Objects, safe, kTags))) = 16
          /\ Len(entriesOf(Objects, Get(Objects, safe, kTags))[1][2].v) = 64
          /\ ~In(Objects, safe, kPath)

(***************************************************************************)
(* C22: assertSafePlainRecord accepts a value exactly when it is a         *)
(* non-null, non-array object whose prototype is Object.prototype or null, *)
(* whose own keys are strings outside __proto__, constructor, prototype,   *)
(* and none of whose own properties is an accessor; otherwise it throws an *)
(* error naming the label; it never looks at the values of the properties. *)
(***************************************************************************)
\* x is an object as the claim describes it
SafePlainValue(x) ==
    \/ x.t = "node"
    \/ /\ x.t = "ref"
       /\ objs[x.v].cls # "array"
       /\ objs[x.v].proto \in {"Object", "null"}
       /\ ~objs[x.v].symbols
       /\ \A p \in Range(objs[x.v].props) : p[1] \notin FORBIDDEN_KEYS
       /\ objs[x.v].accessors = {}

RefusalReasons ==
    {" must be a plain object", " must not have a custom prototype", " contains forbidden key",
     " must not use symbol keys", " must not use accessors"}

\* the objects with the value of every property replaced by undefined
ValuesBlanked ==
    [Objects EXCEPT !.objs =
        [i \in DOMAIN objs |->
            [objs[i] EXCEPT !.props = [j \in 1..Len(objs[i].props) |->
                                          <<objs[i].props[j][1], JUndefined>>]]]]

C22_SafePlainRecordExactly ==
    last.op = "assertSafePlainRecord" =>
        /\ last.k = "ret" <=> SafePlainValue(last.arg)
        /\ last.k = "throw" <=> ~SafePlainValue(last.arg)
        /\ last.k = "throw" => \E reason \in RefusalReasons : last.msg = last.label \o reason
        /\ last.msg = assertSafePlainRecord(ValuesBlanked, last.arg, last.label)

C22_Witness ==
    /\ last.op = "assertSafePlainRecord" /\ last.arg = RawRef("respProtoDef")
    /\ last.k = "ret" /\ SafePlainValue(last.arg)
    /\ ~SafePlainValue(Get(Objects, last.arg, s200))
    /\ ops = MaxOps

(***************************************************************************)
(* C23: across any sequence of normalizeSchema calls, a node is written    *)
(* into the normalised-schema cache at most once: once it has an entry,    *)
(* the absent marker included, a later normalisation of it reads the       *)
(* entry and writes that key no more.                                      *)
(***************************************************************************)
C23_CacheWrittenOnce == last.op = "normalize" => last.rewritten = {}

(***************************************************************************)
(* C24: normalizeAsync applied to an asynchronous pipe node returns the    *)
(* reduction of its child, taken from the inner field or, when inner is    *)
(* missing, from the value field; the pipe layer is not kept.              *)
(***************************************************************************)
\* the last call was normalizeAsync on an asynchronous pipe node that has a
\* child in inner or in value
GivenAsyncPipe ==
    /\ last.op = "normalizeAsync"
    /\ isAsyncSchema(State, last.root)
    /\ N(State, last.root).type = "pipe"
    /\ \E f \in {"inner", "value"} : Field(N(State, last.root), f) # Undef

\* inner, or value when inner is missing
PipeChild(n) == IF Field(n, "inner") # Undef THEN n.inner ELSE n.value

\* got is what normalizeAsync reduces child to: child itself when it is not
\* asynchronous, and otherwise a synchronous node of the kind a second
\* reduction of child gives
IsReductionOf(st, child, got) ==
    IF ~isAsyncSchema(st, child) THEN got = child
    ELSE LET again == normalizeAsync(child, 1, st)
         IN  /\ got # child /\ got # Undef
             /\ N(st, got).async = FALSE
             /\ N(st, got).type = N(again.st, again.id).type

C24_AsyncPipeReducesToChild ==
    GivenAsyncPipe =>
        /\ last.id # last.root
        /\ IsReductionOf(State, PipeChild(N(State, last.root)), last.id)

(***************************************************************************)
(* C25: when the nesting of asynchronous nodes exceeds the reducer's depth *)
(* bound (32), the over-deep part is replaced by an empty object node and  *)
(* the enclosing top-level conversion still succeeds: it does not fail     *)
(* with a depth-limit or any other error.                                  *)
(***************************************************************************)
RECURSIVE AsyncNesting(_, _, _)
\* the number of asynchronous nodes on the longest path of asynchronous
\* nodes that starts at id, counted as far as fuel
AsyncNesting(st, id, fuel) ==
    IF fuel = 0 \/ ~isAsyncSchema(st, id) THEN 0
    ELSE LET ks == Kids(N(st, id))
         IN  1 + Max({0} \cup {AsyncNesting(st, ks[i], fuel - 1) : i \in 1..Len(ks)})

\* normalizeAsync, started at depth 0, meets an asynchronous node below id
\* at a depth greater than the bound
OverDeepAsync(st, id) == AsyncNesting(st, id, MAX_SCHEMA_DEPTH + 2) > MAX_SCHEMA_DEPTH + 1

C25_DeepAsyncStillConverts ==
    (last.op = "normalize" /\ OverDeepAsync(State, last.root)) =>
        (last.k = "ret" /\ last.id # Undef)

(***************************************************************************)
(* C26: after any sequence of earlier conversions, toCleanJsonSchema(      *)
(* schema, typeMode) returns the export of the normalised schema for the   *)
(* requested typeMode, and not a result cached for the other typeMode.     *)
(***************************************************************************)
C26_ExportIsForRequestedMode ==
    (last.op = "toClean" /\ last.k = "ret" /\ last.json.t = "obj") =>
        (last.json.of = last.id /\ last.json.mode = last.mode)

(***************************************************************************)
(* C27: normalizeSchema terminates on every input, returning a node,       *)
(* absent, or throwing a limit error: on a schema graph that contains a    *)
(* reference cycle (a node reachable from itself through wrapped, item,    *)
(* entries or options) it stops with the depth-limit error once the depth  *)
(* passes 32.                                                              *)
(***************************************************************************)
RECURSIVE ReachableIn(_, _, _)
\* the nodes reached from the nodes of S in at most fuel steps along the
\* children
ReachableIn(st, S, fuel) ==
    LET next == S \cup UNION {{Kids(N(st, id))[i] : i \in 1..Len(Kids(N(st, id)))} : id \in S}
    IN  IF fuel = 0 \/ next = S THEN S ELSE ReachableIn(st, next, fuel - 1)

ChildrenOf(st, id) == {Kids(N(st, id))[i] : i \in 1..Len(Kids(N(st, id)))}

\* id lies on a reference cycle
OnCycle(st, id) == id \in ReachableIn(st, ChildrenOf(st, id), CycleFuel)

\* the kinds whose children normalizeSchema descends into
DescendedKinds == {"optional", "nullable", "array", "object", "union"}

\* id lies on a cycle that passes only through nodes of the descended kinds
RECURSIVE DescendedFrom(_, _, _)
DescendedFrom(st, S, fuel) ==
    LET open == {id \in S : isValibotSchema(st, id) /\ N(st, id).type \in DescendedKinds}
        next == S \cup UNION {ChildrenOf(st, id) : id \in open}
    IN  IF fuel = 0 \/ next = S THEN S ELSE DescendedFrom(st, next, fuel - 1)

OnDescendedCycle(st, id) ==
    /\ isValibotSchema(st, id) /\ N(st, id).type \in DescendedKinds
    /\ id \in DescendedFrom(st, ChildrenOf(st, id), CycleFuel)

LimitErrors ==
    {"Schema depth limit exceeded", "array nesting depth exceeded",
     "Schema node limit exceeded"}

SanitizedEntries ==
    IF last.op = "sanitize" /\ last.k = "ret" /\ last.id # Undef
    THEN Range(entriesOf(Objects, CleanApi))
    ELSE {}

C28_MethodEqualsKey ==
    /\ \A e \in SanitizedEntries : Get(Objects, e[2], kMethod) = JString(e[1])
    /\ \A e, f \in SanitizedEntries :
          Get(Objects, e[2], kMethod) = Get(Objects, f[2], kMethod) => e = f

(***************************************************************************)
(* C29: when building an endpoint's operation fails inside                 *)
(* createOpenApiSpec, the paths table is what it was before the endpoint   *)
(* was attempted: no path item, not even an empty one, is left behind for  *)
(* a path whose only endpoint failed.                                      *)
(***************************************************************************)
C29_NoPathItemForFailedEndpoint ==
    DocumentReturned =>
        \A i \in 1..Len(last.doc.paths) : Len(last.doc.paths[i][2]) > 0

(***************************************************************************)
(* C30: normalizeSchema is idempotent on its own output: for every input   *)
(* on which it returns a node r, normalising r again with a fresh budget   *)
(* returns a node reference-equal to r.                                    *)
(***************************************************************************)
C30_IdempotentOnOutput ==
    (last.op = "normalizeTwice" /\ last.k = "ret" /\ last.id # Undef) =>
        (last.again.k = "ret" /\ last.again.id = last.id)

====
